---- MODULE Spec2Model ----
(***************************************************************************)
(* Transcript ingestion of chat-with-transcripts: the marker based         *)
(* chunk-and-enrich logic (chunkTranscriptStep, the inline copy in         *)
(* processMultipleTranscriptsStep, the helper chunkSingleTranscript) and   *)
(* the batch workflow (processMultipleTranscriptsStep followed by          *)
(* embedMultipleTranscriptChunks), the single-transcript workflow, the      *)
(* transcript source, the batch loop await by await, the copies of the     *)
(* chunk logic side by side, and the vector and relational query tools.    *)
(*                                                                         *)
(* Text is a sequence of tokens.  A token is one character, except "W",    *)
(* which stands for a run of LongRun letters without whitespace, bracket   *)
(* or digit; sizes are sums of token weights, so the splitter's maxSize    *)
(* and overlap keep their values from the source.                          *)
(***************************************************************************)
EXTENDS Integers, Sequences, FiniteSets, TLC

\* ------------------------------------------------------------- bounds
MaxEntries == 2
LongRun == 300

\* ------------------------------------------------- program constants
maxSize == 600
overlap == 60

\* ----------------------------------------------------------------- state
VARIABLES
  variant,        \* which copy of the chunk logic is run on inputData
  inputData,      \* the parsed transcript given to it
  runs,           \* its executions so far: the windows doc.chunk returned and the result
  urls,           \* inputData.urls of the batch workflow
  idx,            \* position of the for loop in urls
  pc,             \* where the batch workflow stands
  allChunks, processedUrls,
  batchEmbeddings,
  result,         \* what the workflow returned or threw
  indexExists, vectors,       \* the vector store: the 'transcripts' index
  episodes, summarizeCalls,   \* the relational store and the summarizer
  log,            \* per loop iteration: the url, what fetch and parse gave, the chunks added
  faults,         \* capability calls of this run that failed
  capCalls,       \* capability calls of this run, in order, with what they were given
  workflowRuns,   \* the workflows started so far, in order
  fetches,        \* urls given to all batches so far
  batches,        \* batches started so far
  workers,        \* embed steps of batch runs that go on at the same time
  videoUrl,       \* the url given to the transcript source
  served,         \* what the network and the server do with the request
  adapterResult,  \* what the transcript source gave its caller
  toolContext,    \* the input of a query tool
  toolResult      \* what the query tool returned

chunkVars == <<variant, inputData, runs>>

batchVars ==
  <<urls, idx, pc, allChunks, processedUrls, batchEmbeddings, result, indexExists,
    vectors, episodes, summarizeCalls, log, faults, capCalls, workflowRuns, fetches,
    batches>>

\* the state of one workflow run, without the vector store
runVars ==
  <<urls, idx, pc, allChunks, processedUrls, batchEmbeddings, result, episodes,
    summarizeCalls, log, faults, capCalls, workflowRuns, fetches, batches>>

auxVars == <<workers, videoUrl, served, adapterResult, toolContext, toolResult>>

vars == <<chunkVars, batchVars, auxVars>>

\* ------------------------------------------------------------- tokens
Undefined == "undefined"
\* how a call ends: it throws, or it returns a list of chunks
Threw == [threw |-> TRUE, chunks |-> <<>>]

Returns(chunks) == [threw |-> FALSE, chunks |-> chunks]

Digits == {"0", "1", "2", "3", "4", "5", "6", "7", "8", "9"}

DigitVal(d) ==
  CASE d = "0" -> 0 [] d = "1" -> 1 [] d = "2" -> 2 [] d = "3" -> 3
    [] d = "4" -> 4 [] d = "5" -> 5 [] d = "6" -> 6 [] d = "7" -> 7
    [] d = "8" -> 8 [] d = "9" -> 9

DigitTok(n) == CHOOSE d \in Digits : DigitVal(d) = n

IsWs(tok) == tok \in {" ", "\n"}

Weight(tok) == IF tok = "W" THEN LongRun ELSE 1

RECURSIVE SizeOf(_)
SizeOf(txt) == IF txt = <<>> THEN 0 ELSE Weight(Head(txt)) + SizeOf(Tail(txt))

\* String.prototype.trim
RECURSIVE TrimLeft(_)
TrimLeft(txt) ==
  IF txt # <<>> /\ IsWs(Head(txt)) THEN TrimLeft(Tail(txt)) ELSE txt

RECURSIVE TrimRight(_)
TrimRight(txt) ==
  IF txt # <<>> /\ IsWs(txt[Len(txt)])
  THEN TrimRight(SubSeq(txt, 1, Len(txt) - 1))
  ELSE txt

Trim(txt) == TrimRight(TrimLeft(txt))

\* `${index}`: the decimal digits of a number
RECURSIVE Dec(_)
Dec(n) == IF n < 10 THEN <<DigitTok(n)>> ELSE Dec(n \div 10) \o <<DigitTok(n % 10)>>

\* parseInt(digits, 10)
RECURSIVE ParseInt(_)
ParseInt(ds) ==
  IF Len(ds) = 1 THEN DigitVal(ds[1])
  ELSE 10 * ParseInt(SubSeq(ds, 1, Len(ds) - 1)) + DigitVal(ds[Len(ds)])

\* const lineId = `[[${index}]]`
LineId(index) == <<"[", "[">> \o Dec(index) \o <<"]", "]">>

\* ------------------------------------------------ marking the entries
\* transcript.forEach((entry, index) => { if (entry.text && entry.text.trim()) ... })
RECURSIVE TranscriptLines(_, _)
TranscriptLines(entries, n) ==
  IF n = 0 THEN <<>>
  ELSE LET rest == TranscriptLines(entries, n - 1)
           t == Trim(entries[n].text)
       IN IF t # <<>> THEN Append(rest, LineId(n - 1) \o <<" ">> \o t) ELSE rest

\* transcriptLines.join('\n')
RECURSIVE Join(_)
Join(lines) ==
  IF lines = <<>> THEN <<>>
  ELSE IF Len(lines) = 1 THEN lines[1]
  ELSE lines[1] \o <<"\n">> \o Join(Tail(lines))

FullTranscriptText(entries) == Join(TranscriptLines(entries, Len(entries)))

\* ------------------------------------------- the marker regex /\[\[(\d+)\]\]/g
\* the last position of the digit run that starts at q (q - 1 when there is none)
RECURSIVE DigitRunEnd(_, _)
DigitRunEnd(txt, q) ==
  IF q <= Len(txt) /\ txt[q] \in Digits THEN DigitRunEnd(txt, q + 1) ELSE q - 1

\* the last position of a match that starts at p, or 0 when none starts there
MatchAt(txt, p) ==
  IF p + 1 <= Len(txt) /\ txt[p] = "[" /\ txt[p + 1] = "["
  THEN LET e == DigitRunEnd(txt, p + 2)
       IN IF e >= p + 2 /\ e + 2 <= Len(txt) /\ txt[e + 1] = "]" /\ txt[e + 2] = "]"
          THEN e + 2
          ELSE 0
  ELSE 0

\* Array.from(text.matchAll(re)).map((match) => parseInt(match[1], 10))
RECURSIVE MatchAll(_, _)
MatchAll(txt, p) ==
  IF p > Len(txt) THEN <<>>
  ELSE LET m == MatchAt(txt, p)
       IN IF m > 0
          THEN <<ParseInt(SubSeq(txt, p + 2, m - 2))>> \o MatchAll(txt, m + 1)
          ELSE MatchAll(txt, p + 1)

EntryIndices(txt) == MatchAll(txt, 1)

\* text.replace(re, ''): one left-to-right pass, the result is not rescanned
RECURSIVE ReplaceMarkers(_, _)
ReplaceMarkers(txt, p) ==
  IF p > Len(txt) THEN <<>>
  ELSE LET m == MatchAt(txt, p)
       IN IF m > 0
          THEN ReplaceMarkers(txt, m + 1)
          ELSE <<txt[p]>> \o ReplaceMarkers(txt, p + 1)

StripMarkers(txt) == Trim(ReplaceMarkers(txt, 1))

\* [...new Set(xs)]: first occurrences, in order
RECURSIVE Unique(_)
Unique(xs) ==
  IF xs = <<>> THEN <<>>
  ELSE LET init == Unique(SubSeq(xs, 1, Len(xs) - 1))
           x == xs[Len(xs)]
       IN IF \E i \in 1..Len(init) : init[i] = x THEN init ELSE Append(init, x)

\* the comparator reversed: (a, b) => b - a
RECURSIVE SortDesc(_)
SortDesc(xs) ==
  IF xs = <<>> THEN <<>>
  ELSE LET m == CHOOSE i \in 1..Len(xs) : \A j \in 1..Len(xs) : xs[i] >= xs[j]
       IN <<xs[m]>> \o SortDesc(SubSeq(xs, 1, m - 1) \o SubSeq(xs, m + 1, Len(xs)))

\* xs.sort((a, b) => a - b)
RECURSIVE SortAsc(_)
SortAsc(xs) ==
  IF xs = <<>> THEN <<>>
  ELSE LET m == CHOOSE i \in 1..Len(xs) : \A j \in 1..Len(xs) : xs[i] <= xs[j]
       IN <<xs[m]>> \o SortAsc(SubSeq(xs, 1, m - 1) \o SubSeq(xs, m + 1, Len(xs)))

\* the indices without the Set: one per marker found
AllIndices(txt) == SortAsc(EntryIndices(txt))

\* Array.from(new Set(entryIndices)).sort((a, b) => a - b)
UniqueIndices(txt) == SortAsc(Unique(EntryIndices(txt)))

\* ----------------------------------- doc.chunk({strategy: 'sentence', ...})
\* The splitter is a library: a window is a slice <<from, to>> of the text of
\* size at most maxSize; windows follow each other without a gap and share at
\* most overlap units; a window is as long as the size allows; it is cut at a
\* sentence end, inside an over-long sentence at a word boundary, and inside
\* an over-long word anywhere.
Slice(txt, w) == SubSeq(txt, w[1], w[2])

SentenceEndAt(txt, c) ==
  /\ c >= 1 /\ c <= Len(txt)
  /\ txt[c] \in {".", "!", "?"}
  /\ (c = Len(txt) \/ IsWs(txt[c + 1]))

\* the sentence that holds token p, as <<from, to>>
SentenceOf(txt, p) ==
  LET before == {c \in 1..(p - 1) : SentenceEndAt(txt, c)}
      after == {c \in p..Len(txt) : SentenceEndAt(txt, c)}
      from == IF before = {} THEN 1
              ELSE (CHOOSE c \in before : \A d \in before : d <= c) + 1
      to == IF after = {} THEN Len(txt)
            ELSE CHOOSE c \in after : \A d \in after : c <= d
  IN <<from, to>>

\* the word (run without whitespace) that holds the non-blank token p
WordOf(txt, p) ==
  LET before == {c \in 1..(p - 1) : IsWs(txt[c])}
      after == {c \in (p + 1)..Len(txt) : IsWs(txt[c])}
      from == IF before = {} THEN 1
              ELSE (CHOOSE c \in before : \A d \in before : d <= c) + 1
      to == IF after = {} THEN Len(txt)
            ELSE (CHOOSE c \in after : \A d \in after : c <= d) - 1
  IN <<from, to>>

\* may a window end after token c (and the next one start at c + 1)?
LegalCut(txt, c) ==
  \/ c = 0
  \/ c = Len(txt)
  \/ SentenceEndAt(txt, c)
  \/ /\ c >= 1 /\ c < Len(txt)
     /\ IsWs(txt[c]) \/ IsWs(txt[c + 1])
     /\ SentenceOf(txt, c) = SentenceOf(txt, c + 1)
     /\ SizeOf(Slice(txt, SentenceOf(txt, c))) > maxSize
  \/ /\ c >= 1 /\ c < Len(txt)
     /\ ~IsWs(txt[c]) /\ ~IsWs(txt[c + 1])
     /\ SizeOf(Slice(txt, WordOf(txt, c))) > maxSize

Max(S) == CHOOSE x \in S : \A y \in S : y <= x

\* the places where the text may be cut
Cuts(txt) == {c \in 0..Len(txt) : LegalCut(txt, c)}

\* the ends a window that starts at from may have, after the previous end
WindowEnds(txt, cuts, from, prevEnd) ==
  {to \in cuts : to >= from /\ to > prevEnd /\ SizeOf(SubSeq(txt, from, to)) <= maxSize}

\* where the window after <<from, to>> may start: right after it, or earlier
\* by at most overlap units
NextStarts(txt, cuts, from, to) ==
  {s \in (from + 1)..(to + 1) :
     /\ (s - 1) \in cuts
     /\ s = to + 1 \/ SizeOf(SubSeq(txt, s, to)) <= overlap
     /\ WindowEnds(txt, cuts, s, to) # {}}

\* every window sequence whose first window starts at from; a window is the
\* longest one the size allows
RECURSIVE WindowsFrom(_, _, _, _)
WindowsFrom(txt, cuts, from, prevEnd) ==
  LET to == Max(WindowEnds(txt, cuts, from, prevEnd))
  IN IF to = Len(txt) THEN {<< <<from, to>> >>}
     ELSE UNION {{<< <<from, to>> >> \o rest : rest \in WindowsFrom(txt, cuts, s, to)} :
                   s \in NextStarts(txt, cuts, from, to)}

\* the window sequences doc.chunk may return for a text; none for an empty text
Chunk(txt) == IF txt = <<>> THEN {<<>>} ELSE WindowsFrom(txt, Cuts(txt), 1, 0)

\* ------------------------------------------------------------ enrichment
\* an id that also counts the executions so far
ChunkIdCounting(episode_title, index, first, last) ==
  <<episode_title, "_chunk_", index + Len(runs), "_", first, "_", last>>

\* `${episode_title}_chunk_${index}_${first}_${last}`
ChunkId(episode_title, index, first, last) ==
  <<episode_title, "_chunk_", index, "_", first, "_", last>>

\* uniqueIndices.map((i) => transcript[i]): an index past the array gives undefined
InRange(entries, i) == i + 1 <= Len(entries)

EntryAt(entries, i) == entries[i + 1]

\* matchedEntries.map((e) => e.speaker) throws a TypeError on an undefined entry
SpeakerMapThrows(entries, indices) ==
  \E k \in 1..Len(indices) : ~InRange(entries, indices[k])

SpeakersOf(entries, indices) ==
  [k \in 1..Len(indices) |-> EntryAt(entries, indices[k]).speaker]

\* .filter((s) => typeof s === 'string' && s.trim() !== '')
RECURSIVE FilterSpeakers(_)
FilterSpeakers(xs) ==
  IF xs = <<>> THEN <<>>
  ELSE IF Head(xs) \in {Undefined, "", " "} THEN FilterSpeakers(Tail(xs))
  ELSE <<Head(xs)>> \o FilterSpeakers(Tail(xs))

\* x ?? '' and x || '' on a timestamp that may be undefined
OrEmpty(x) == IF x = Undefined \/ x = "" THEN "" ELSE x

\* uniqueSpeakers of chunkTranscriptStep and of the inline copy of the batch step
UniqueSpeakersStep(entries, indices) == Unique(SpeakersOf(entries, indices))

\* uniqueSpeakers of chunkSingleTranscript
UniqueSpeakersHelper(entries, indices) ==
  Unique(FilterSpeakers(SpeakersOf(entries, indices)))

\* entries_count: matchedEntries.length
EntriesCount(indices) == Len(indices)

\* the element chunks.map builds for the window at position k of chunkTranscriptStep
\* (and of the inline copy, which is the same text)
StepChunk(data, txt, ws, k) ==
  LET ctext == Slice(txt, ws[k])
      uniqueIndices == UniqueIndices(ctext)
      entries == data.transcript.entries
      n == Len(uniqueIndices)
      first == IF n = 0 THEN Undefined
               ELSE EntryAt(entries, uniqueIndices[1]).timestamp
      last == IF n = 0 THEN Undefined
              ELSE EntryAt(entries, uniqueIndices[n]).timestamp
  IN [text |-> StripMarkers(ctext),
      metadata |->
        [episode_title |-> data.metadata.episode_title,
         total_speakers |-> data.metadata.total_speakers,
         source |-> data.metadata.source,
         source_type |-> "transcript",
         timestamp_start |-> OrEmpty(first),
         timestamp_end |-> OrEmpty(last),
         speakers_in_chunk |-> UniqueSpeakersStep(entries, uniqueIndices),
         entries_count |-> EntriesCount(uniqueIndices),
         chunk_id |-> ChunkId(data.metadata.episode_title, k - 1, first, last)]]

\* the same for chunkSingleTranscript
HelperChunk(data, txt, ws, k) ==
  LET ctext == Slice(txt, ws[k])
      uniqueIndices == UniqueIndices(ctext)
      entries == data.transcript.entries
      n == Len(uniqueIndices)
      first == IF n = 0 THEN Undefined
               ELSE EntryAt(entries, uniqueIndices[1]).timestamp
      last == IF n = 0 THEN Undefined
              ELSE EntryAt(entries, uniqueIndices[n]).timestamp
  IN [text |-> StripMarkers(ctext),
      metadata |->
        [episode_title |-> data.metadata.episode_title,
         speakers |-> data.metadata.total_speakers,
         source |-> data.metadata.source,
         source_type |-> "transcript",
         timestamp_start |-> OrEmpty(first),
         timestamp_end |-> OrEmpty(last),
         speakers_in_chunk |-> UniqueSpeakersHelper(entries, uniqueIndices),
         entries_count |-> EntriesCount(uniqueIndices),
         chunk_id |->
           ChunkId(data.metadata.episode_title, k - 1, OrEmpty(first), OrEmpty(last))]]

\* does chunks.map throw for these windows?
MapThrows(data, txt, ws) ==
  \E k \in 1..Len(ws) :
    SpeakerMapThrows(data.transcript.entries, UniqueIndices(Slice(txt, ws[k])))

\* chunkTranscriptStep.execute after doc.chunk returned ws: the outcome.
\* transcript.forEach throws when the transcript is not an array.
EnrichStep(data, txt, ws) ==
  IF data.transcript.kind # "array" \/ MapThrows(data, txt, ws) THEN Threw
  ELSE Returns([k \in 1..Len(ws) |-> StepChunk(data, txt, ws, k)])

\* chunkSingleTranscript after doc.chunk returned ws; a transcript that is one
\* object is wrapped into an array first
EnrichHelper(data, txt, ws) ==
  IF MapThrows(data, txt, ws) THEN Threw
  ELSE Returns([k \in 1..Len(ws) |-> HelperChunk(data, txt, ws, k)])

\* ------------------------------------------------------------ input data
MaxChunkRuns == 2
MaxUrls == 2
MaxRuns == 2

\* raw utterance texts: empty, one short sentence, padded words, a short and a
\* long sentence, two long sentences, one over-long sentence, one over-long
\* word, and texts that hold the marker syntax themselves (index in range, out
\* of range, nested)
Texts ==
  {<<>>,
   <<"w", ".">>,
   <<" ", "w", " ", "w", " ">>,
   <<"w", ".", " ", "W", ".">>,
   <<"W", ".", " ", "W", ".">>,
   <<"W", " ", "W", " ", "W">>,
   <<"W", "W", "W">>,
   <<"[", "[", "0", "]", "]">>,
   <<"[", "[", "9", "]", "]">>,
   <<"[", "[", "[", "[", "1", "]", "]", "0", "]", "]">>}

\* timestamp and speaker of an utterance; clock values need not follow the
\* positions, and a speaker may be empty
Profiles == {<<"00:05", "A">>, <<"00:00", "B">>, <<"00:00", "">>}

PlainText == <<"w", ".">>

\* the utterances: every text as said by A at 00:05, and the plain sentence
\* under every profile
Entries ==
  {[timestamp |-> "00:05", speaker |-> "A", text |-> t] : t \in Texts}
    \cup {[timestamp |-> p[1], speaker |-> p[2], text |-> PlainText] : p \in Profiles}

RECURSIVE SeqsUpTo(_, _)
SeqsUpTo(S, n) ==
  IF n = 0 THEN {<<>>}
  ELSE LET shorter == SeqsUpTo(S, n - 1)
       IN shorter \cup {Append(q, x) : q \in {r \in shorter : Len(r) = n - 1}, x \in S}

Metadata(title) ==
  [episode_title |-> title, total_speakers |-> <<"A", "B">>, source |-> "src"]

\* a structured transcript document
ArrayDoc(title, entries) ==
  [hasMetadata |-> TRUE, metadata |-> Metadata(title),
   transcript |-> [kind |-> "array", entries |-> entries]]

\* the 'simple' shape, transcript: { text }: one entry without timestamp and speaker
SimpleDoc(title, text) ==
  [hasMetadata |-> TRUE, metadata |-> Metadata(title),
   transcript |-> [kind |-> "object",
                   entries |-> <<[timestamp |-> Undefined, speaker |-> Undefined,
                                  text |-> text]>>]]

ChunkInputs ==
  {ArrayDoc("E1", es) : es \in SeqsUpTo(Entries, MaxEntries)}
    \cup {SimpleDoc("E1", t) : t \in Texts}

Variants == {"step", "helper"}

NoResult == [kind |-> "none"]

\* no embed step runs beside the workflow, no source and no tool is in use
SourceIdle == videoUrl = "" /\ served = NoResult /\ adapterResult = NoResult

ToolIdle == toolContext = NoResult /\ toolResult = NoResult

AuxIdle == workers = <<>> /\ SourceIdle /\ ToolIdle

\* no workflow runs
RunIdle ==
  /\ urls = <<>> /\ idx = 1 /\ pc = "idle"
  /\ allChunks = <<>> /\ processedUrls = <<>> /\ batchEmbeddings = <<>>
  /\ result = NoResult
  /\ episodes = <<>> /\ summarizeCalls = <<>>
  /\ log = <<>> /\ faults = {} /\ capCalls = <<>> /\ workflowRuns = <<>>
  /\ fetches = 0 /\ batches = 0

\* ------------------------------------------- the chunk logic on its own
ChunkInit ==
  /\ variant \in Variants
  /\ inputData \in ChunkInputs
  /\ runs = <<>>
  /\ AuxIdle
  /\ urls = <<>> /\ idx = 1 /\ pc = "idle"
  /\ allChunks = <<>> /\ processedUrls = <<>> /\ batchEmbeddings = <<>>
  /\ result = NoResult
  /\ indexExists = FALSE /\ vectors = <<>>
  /\ episodes = <<>> /\ summarizeCalls = <<>>
  /\ log = <<>> /\ faults = {} /\ capCalls = <<>> /\ workflowRuns = <<>>
  /\ fetches = 0 /\ batches = 0

\* chunkTranscriptStep.execute; a further execution is given the same windows
\* (identical transcript, identical chunks from the splitter)
ChunkTranscriptStep ==
  /\ variant = "step"
  /\ Len(runs) < MaxChunkRuns
  /\ LET txt == FullTranscriptText(inputData.transcript.entries)
     IN \E ws \in (IF runs = <<>> THEN Chunk(txt) ELSE {runs[1].windows}) :
          LET out == EnrichStep(inputData, txt, ws)
          IN runs' = Append(runs, [text |-> txt, windows |-> ws,
                                   threw |-> out.threw, chunks |-> out.chunks])
  /\ UNCHANGED <<variant, inputData, batchVars, auxVars>>

\* chunkSingleTranscript
ChunkSingleTranscript ==
  /\ variant = "helper"
  /\ Len(runs) < MaxChunkRuns
  /\ LET txt == FullTranscriptText(inputData.transcript.entries)
     IN \E ws \in (IF runs = <<>> THEN Chunk(txt) ELSE {runs[1].windows}) :
          LET out == EnrichHelper(inputData, txt, ws)
          IN runs' = Append(runs, [text |-> txt, windows |-> ws,
                                   threw |-> out.threw, chunks |-> out.chunks])
  /\ UNCHANGED <<variant, inputData, batchVars, auxVars>>

ChunkNext == ChunkTranscriptStep \/ ChunkSingleTranscript

ChunkSpec == ChunkInit /\ [][ChunkNext]_vars

\* ------------------------------------------------- the batch workflow
Urls == {"u1", "u2"}

Entry(timestamp, speaker, text) ==
  [timestamp |-> timestamp, speaker |-> speaker, text |-> text]

\* the documents a url may serve: two well-formed transcripts (one and two
\* chunks), a well-formed one whose text cites a line id past its end, one
\* whose only utterance has no text, one without metadata, one without
\* transcript, one without episode_title and one without source
DocA == ArrayDoc("E1", <<Entry("00:00", "B", <<"w", ".">>), Entry("00:05", "A", <<"w", ".">>)>>)

DocB == ArrayDoc("E2", <<Entry("00:05", "A", <<"W", ".", " ", "W", ".">>)>>)

DocCiting == ArrayDoc("E1", <<Entry("00:00", "", <<"[", "[", "9", "]", "]">>)>>)

DocNoMetadata ==
  [hasMetadata |-> FALSE, metadata |-> Metadata(Undefined),
   transcript |-> [kind |-> "array", entries |-> <<Entry("00:00", "A", <<"w", ".">>)>>]]

DocNoTranscript ==
  [hasMetadata |-> TRUE, metadata |-> Metadata("E2"),
   transcript |-> [kind |-> "missing", entries |-> <<>>]]

DocEmpty == ArrayDoc("E2", <<Entry("00:00", "B", <<>>)>>)

DocNoTitle == [DocA EXCEPT !.metadata.episode_title = Undefined]

DocNoSource == [DocA EXCEPT !.metadata.source = Undefined]

BatchDocs ==
  {DocA, DocB, DocCiting, DocEmpty, DocNoMetadata, DocNoTranscript, DocNoTitle,
   DocNoSource}

\* what fetch(url), response.text() and JSON.parse give: fetch rejects, the body
\* is not JSON, or the body is a JSON document
FetchOutcomes ==
  {[kind |-> "fetchError", data |-> DocNoTranscript],
   [kind |-> "notJson", data |-> DocNoTranscript]}
    \cup {[kind |-> "json", data |-> d] : d \in BatchDocs}

\* the document is a transcript with the required fields
WellFormed(o) ==
  /\ o.kind = "json" /\ o.data.hasMetadata /\ o.data.transcript.kind = "array"
  /\ o.data.metadata.episode_title # Undefined
  /\ o.data.metadata.source # Undefined

\* the body of the try block of one loop iteration, given what the fetch and
\* the splitter return: fetch, JSON.parse, parsed.transcript.forEach,
\* parsed.metadata.episode_title, doc.chunk, chunks.map
Iteration(o, txt, ws) ==
  IF o.kind = "fetchError" THEN Threw
  ELSE IF o.kind = "notJson" THEN Threw
  ELSE IF o.data.transcript.kind # "array" THEN Threw
  ELSE IF ~o.data.hasMetadata THEN Threw
  ELSE EnrichStep(o.data, txt, ws)

\* a catch block that would throw again
Rethrow == "threw"

\* catch (error) { console.error(...) }: the loop goes on
AfterCatch == "loop"

\* a check that never finds the row
NeverPresent(rows, title) == FALSE

\* is there an episode row with this title?
EpisodePresent(rows, title) == \E i \in 1..Len(rows) : rows[i].episode_title = title

\* summarize and insert the episode unless its title is stored; a failed
\* summarization skips the insert
DedupEpisode(rows, calls, o, summarized) ==
  IF ~WellFormed(o) \/ EpisodePresent(rows, o.data.metadata.episode_title)
  THEN [episodes |-> rows, calls |-> calls]
  ELSE [episodes |->
          IF summarized
          THEN Append(rows, [id |-> Len(rows) + 1,
                             episode_title |-> o.data.metadata.episode_title,
                             speakers |-> o.data.metadata.total_speakers,
                             source |-> o.data.metadata.source,
                             summary |-> "summary"])
          ELSE rows,
        calls |-> Append(calls,
                         [episode_title |-> o.data.metadata.episode_title,
                          present |-> \E i \in 1..Len(rows) :
                                        rows[i].episode_title
                                          = o.data.metadata.episode_title])]

Failure(error) == [kind |-> "threw", error |-> error]

BatchInit ==
  /\ variant = "batch" /\ inputData = DocNoTranscript /\ runs = <<>>
  /\ AuxIdle
  /\ urls \in SeqsUpTo(Urls, MaxUrls)
  /\ idx = 1 /\ pc = "loop"
  /\ allChunks = <<>> /\ processedUrls = <<>> /\ batchEmbeddings = <<>>
  /\ result = NoResult
  /\ indexExists = FALSE /\ vectors = <<>>
  /\ episodes = <<>> /\ summarizeCalls = <<>>
  /\ log = <<>> /\ faults = {} /\ capCalls = <<>>
  /\ workflowRuns = <<"transcripts-workflow">>
  /\ fetches = Len(urls) /\ batches = 1

\* one iteration of for (const url of inputData.urls) of processMultipleTranscriptsStep
ProcessUrl ==
  /\ pc = "loop" /\ idx <= Len(urls)
  /\ \E o \in FetchOutcomes, summarized \in BOOLEAN :
       LET txt == IF o.kind = "json"
                  THEN FullTranscriptText(o.data.transcript.entries) ELSE <<>>
       IN \E ws \in Chunk(txt) :
            LET out == Iteration(o, txt, ws)
                dedup == DedupEpisode(episodes, summarizeCalls, o, summarized)
            IN /\ pc' = IF out.threw THEN AfterCatch ELSE "loop"
               /\ result' = IF out.threw /\ AfterCatch = "threw"
                            THEN Failure("Error") ELSE result
               /\ allChunks' = allChunks \o out.chunks
               /\ processedUrls' = IF out.threw THEN processedUrls
                                   ELSE Append(processedUrls, urls[idx])
               /\ log' = Append(log, [url |-> urls[idx], wellFormed |-> WellFormed(o),
                                      episode_title |-> o.data.metadata.episode_title,
                                      threw |-> out.threw, chunks |-> Len(out.chunks)])
               /\ episodes' = dedup.episodes
               /\ summarizeCalls' = dedup.calls
  /\ idx' = idx + 1
  /\ UNCHANGED <<auxVars, chunkVars, urls, batchEmbeddings, indexExists, vectors, faults,
                 capCalls, fetches, batches, workflowRuns>>

\* the loop is over: return { allChunks, processedUrls } to the embed step
ReturnChunks ==
  /\ pc = "loop" /\ idx > Len(urls)
  /\ pc' = "embedStep"
  /\ UNCHANGED <<auxVars, chunkVars, urls, idx, allChunks, processedUrls, batchEmbeddings,
                 result, indexExists, vectors, episodes, summarizeCalls, log, faults,
                 capCalls, fetches, batches, workflowRuns>>

Success(totalChunks, urlsDone) ==
  [kind |-> "returned", success |-> TRUE, totalChunks |-> totalChunks,
   processedUrls |-> urlsDone]

\* a check that never takes the early return
AlwaysEmbed(chunks) == FALSE

\* inputData.allChunks.length === 0
NothingToEmbed(chunks) == Len(chunks) = 0

\* embedMultipleTranscriptChunks: if (inputData.allChunks.length === 0) return ...
NoChunksToEmbed ==
  /\ pc = "embedStep" /\ NothingToEmbed(allChunks)
  /\ result' = Success(0, processedUrls)
  /\ pc' = "done"
  /\ UNCHANGED <<auxVars, chunkVars, urls, idx, allChunks, processedUrls, batchEmbeddings,
                 indexExists, vectors, episodes, summarizeCalls, log, faults, capCalls,
                 fetches, batches, workflowRuns>>

\* the vector the embedding model gives a text
Embedding(text) == [embeddingOf |-> text]

\* values that leave out all chunks but the first
FirstValueOnly(chunks) == IF chunks = <<>> THEN <<>> ELSE <<chunks[1].text>>

\* values: inputData.allChunks.map((chunk) => chunk.text)
EmbedValues(chunks) == [i \in 1..Len(chunks) |-> chunks[i].text]

\* a step that would go on to the store after a failed embedding
EmbedFailureSwallowed == "createIndex"

\* embedMany is not in a try: what it throws ends the step
AfterEmbedFailed == "threw"

\* await embedMany({ values }): one embedding per value; a failure is not caught
EmbedMany ==
  /\ pc = "embedStep" /\ ~NothingToEmbed(allChunks)
  /\ LET values == EmbedValues(allChunks)
     IN /\ capCalls' = Append(capCalls, [op |-> "embedMany", values |-> values])
        /\ \/ /\ batchEmbeddings' = [i \in 1..Len(values) |-> Embedding(values[i])]
              /\ pc' = "createIndex"
              /\ UNCHANGED <<result, faults>>
           \/ /\ faults' = faults \cup {"embedMany"}
              /\ result' = Failure("EmbeddingError")
              /\ pc' = AfterEmbedFailed
              /\ UNCHANGED batchEmbeddings
  /\ UNCHANGED <<auxVars, chunkVars, urls, idx, allChunks, processedUrls, indexExists, vectors,
                 episodes, summarizeCalls, log, fetches, batches, workflowRuns>>

\* a catch block around createIndex that would throw again
CreateRethrown == "threw"

\* catch (error) { console.log('Using existing transcripts index') }: go on to upsert
AfterCreateFailed == "upsert"

\* try { await vectorStore.createIndex(...) } catch (error) { /* continue */ }:
\* the call leaves the index in place (created now, or there already), or it
\* throws because the index exists, or it throws because the store failed;
\* whatever it throws is caught and the step goes on
CreateIndex ==
  /\ pc = "createIndex"
  /\ \/ /\ indexExists' = TRUE
        /\ capCalls' = Append(capCalls, [op |-> "createIndex", outcome |-> "ok"])
        /\ pc' = "upsert"
        /\ UNCHANGED <<faults, result>>
     \/ /\ indexExists
        /\ capCalls' = Append(capCalls, [op |-> "createIndex", outcome |-> "alreadyExists"])
        /\ pc' = AfterCreateFailed
        /\ result' = IF AfterCreateFailed = "threw" THEN Failure("StoreError") ELSE result
        /\ UNCHANGED <<indexExists, faults>>
     \/ /\ faults' = faults \cup {"createIndex"}
        /\ capCalls' = Append(capCalls, [op |-> "createIndex", outcome |-> "storeError"])
        /\ pc' = AfterCreateFailed
        /\ result' = IF AfterCreateFailed = "threw" THEN Failure("StoreError") ELSE result
        /\ UNCHANGED indexExists
  /\ UNCHANGED <<auxVars, chunkVars, urls, idx, allChunks, processedUrls, batchEmbeddings,
                 vectors, episodes, summarizeCalls, log, fetches, batches, workflowRuns>>

\* ...chunk.metadata, text: chunk.text
WithText(chunk) ==
  [episode_title |-> chunk.metadata.episode_title,
   total_speakers |-> chunk.metadata.total_speakers,
   source |-> chunk.metadata.source,
   source_type |-> chunk.metadata.source_type,
   timestamp_start |-> chunk.metadata.timestamp_start,
   timestamp_end |-> chunk.metadata.timestamp_end,
   speakers_in_chunk |-> chunk.metadata.speakers_in_chunk,
   entries_count |-> chunk.metadata.entries_count,
   chunk_id |-> chunk.metadata.chunk_id,
   text |-> chunk.text]

\* ids that number the vectors of one call
OrdinalIds(store, n) == [i \in 1..n |-> i]

\* upsert is called without ids: the store gives every vector an id of its
\* own, one that no stored vector has
VectorIds(store, n) == [i \in 1..n |-> Len(store) + i]

\* rows that pair the vectors with the metadata in the opposite order
RowsReversed(ids, embeddings, chunks) ==
  [i \in 1..Len(chunks) |->
     [id |-> ids[i], vector |-> embeddings[i],
      metadata |-> WithText(chunks[Len(chunks) + 1 - i])]]

\* the rows of one upsert call
VectorRows(ids, embeddings, chunks) ==
  [i \in 1..Len(chunks) |->
     [id |-> ids[i], vector |-> embeddings[i], metadata |-> WithText(chunks[i])]]

\* the store after writing one row: a row with the id of a stored row takes its
\* place, any other row is added
RECURSIVE WriteRows(_, _)
WriteRows(store, rows) ==
  IF rows = <<>> THEN store
  ELSE LET row == Head(rows)
           at == {j \in 1..Len(store) : store[j].id = row.id}
       IN WriteRows(IF at = {} THEN Append(store, row)
                    ELSE [j \in 1..Len(store) |-> IF j \in at THEN row ELSE store[j]],
                    Tail(rows))

\* a store that keeps one row per chunk_id
RECURSIVE WriteByChunkId(_, _)
WriteByChunkId(store, rows) ==
  IF rows = <<>> THEN store
  ELSE LET row == Head(rows)
           at == {j \in 1..Len(store) : store[j].metadata.chunk_id = row.metadata.chunk_id}
       IN WriteByChunkId(IF at = {} THEN Append(store, row)
                         ELSE [j \in 1..Len(store) |-> IF j \in at THEN row ELSE store[j]],
                         Tail(rows))

\* vectorStore.upsert({ indexName, vectors, metadata })
UpsertInto(store, rows) == WriteRows(store, rows)

\* await vectorStore.upsert({ vectors, metadata }) and the return; a failure is
\* not caught
Upsert ==
  /\ pc = "upsert"
  /\ capCalls' = Append(capCalls, [op |-> "upsert", count |-> Len(allChunks)])
  /\ \/ /\ indexExists
        /\ vectors' = UpsertInto(vectors,
                                 VectorRows(VectorIds(vectors, Len(allChunks)),
                                            batchEmbeddings, allChunks))
        /\ result' = Success(Len(allChunks), processedUrls)
        /\ pc' = "done"
        /\ UNCHANGED faults
     \/ /\ faults' = faults \cup {"upsert"}
        /\ result' = Failure("StoreError")
        /\ pc' = "threw"
        /\ UNCHANGED vectors
  /\ UNCHANGED <<auxVars, chunkVars, urls, idx, allChunks, processedUrls, batchEmbeddings,
                 indexExists, episodes, summarizeCalls, log, fetches, batches, workflowRuns>>

\* a workflow run is over
RunOver == pc \in {"done", "threw", "singleDone", "singleThrew"}

\* the workflow is run again with another list of urls; the stores stay
NextBatch ==
  /\ RunOver
  /\ batches < MaxRuns
  /\ \E us \in SeqsUpTo(Urls, MaxUrls) :
       /\ Len(us) >= 1
       /\ fetches + Len(us) <= MaxUrls
       /\ urls' = us
       /\ fetches' = fetches + Len(us)
  /\ batches' = batches + 1
  /\ workflowRuns' = Append(workflowRuns, "transcripts-workflow")
  /\ idx' = 1 /\ pc' = "loop"
  /\ allChunks' = <<>> /\ processedUrls' = <<>> /\ batchEmbeddings' = <<>>
  /\ result' = NoResult /\ log' = <<>> /\ faults' = {} /\ capCalls' = <<>>
  /\ UNCHANGED <<auxVars, chunkVars, indexExists, vectors, episodes, summarizeCalls>>

\* singleTranscriptWorkflow up to its embed step: fetchTranscriptStep,
\* parseTranscriptStep and chunkTranscriptStep on one url.  The steps declare
\* chunkInputSchema; a run that validates it rejects a document without the
\* required fields, one that does not hands it on.
SingleTranscriptChunks ==
  /\ RunOver
  /\ batches < MaxRuns
  /\ fetches + 1 <= MaxUrls
  /\ \E o \in FetchOutcomes, validates \in BOOLEAN :
       LET txt == IF o.kind = "json"
                  THEN FullTranscriptText(o.data.transcript.entries) ELSE <<>>
       IN \E ws \in Chunk(txt) :
            LET out == IF validates /\ ~WellFormed(o) THEN Threw
                       ELSE Iteration(o, txt, ws)
            IN /\ allChunks' = out.chunks
               /\ pc' = IF out.threw THEN "singleThrew" ELSE "singleEmbed"
               /\ result' = IF out.threw THEN Failure("Error") ELSE NoResult
  /\ fetches' = fetches + 1
  /\ batches' = batches + 1
  /\ workflowRuns' = Append(workflowRuns, "single-transcript-workflow")
  /\ urls' = <<>> /\ idx' = 1
  /\ processedUrls' = <<>> /\ batchEmbeddings' = <<>>
  /\ log' = <<>> /\ faults' = {} /\ capCalls' = <<>>
  /\ UNCHANGED <<auxVars, chunkVars, indexExists, vectors, episodes, summarizeCalls>>

\* embedSingleTranscriptChunks: embedMany, deleteIndex, createIndex, upsert,
\* none of them in a try; each may fail and ends the step where it failed
EmbedSingleTranscriptChunks ==
  /\ pc = "singleEmbed"
  /\ LET values == EmbedValues(allChunks)
         embeddings == [i \in 1..Len(values) |-> Embedding(values[i])]
     IN \/ /\ faults' = {"embedMany"}
           /\ capCalls' = <<[op |-> "embedMany", values |-> values]>>
           /\ UNCHANGED <<indexExists, vectors, batchEmbeddings>>
           /\ result' = Failure("EmbeddingError") /\ pc' = "singleThrew"
        \/ /\ faults' = {"deleteIndex"}
           /\ capCalls' = <<[op |-> "embedMany", values |-> values], [op |-> "deleteIndex"]>>
           /\ batchEmbeddings' = embeddings
           /\ UNCHANGED <<indexExists, vectors>>
           /\ result' = Failure("StoreError") /\ pc' = "singleThrew"
        \/ /\ faults' = {"createIndex"}
           /\ capCalls' = <<[op |-> "embedMany", values |-> values], [op |-> "deleteIndex"],
                         [op |-> "createIndex", outcome |-> "storeError"]>>
           /\ batchEmbeddings' = embeddings
           /\ indexExists' = FALSE /\ vectors' = <<>>
           /\ result' = Failure("StoreError") /\ pc' = "singleThrew"
        \/ /\ faults' = {"upsert"}
           /\ capCalls' = <<[op |-> "embedMany", values |-> values], [op |-> "deleteIndex"],
                         [op |-> "createIndex", outcome |-> "ok"],
                         [op |-> "upsert", count |-> Len(allChunks)]>>
           /\ batchEmbeddings' = embeddings
           /\ indexExists' = TRUE /\ vectors' = <<>>
           /\ result' = Failure("StoreError") /\ pc' = "singleThrew"
        \/ /\ faults' = {}
           /\ capCalls' = <<[op |-> "embedMany", values |-> values], [op |-> "deleteIndex"],
                         [op |-> "createIndex", outcome |-> "ok"],
                         [op |-> "upsert", count |-> Len(allChunks)]>>
           /\ batchEmbeddings' = embeddings
           /\ indexExists' = TRUE
           /\ vectors' = UpsertInto(<<>>, VectorRows(VectorIds(<<>>, Len(allChunks)),
                                                    embeddings, allChunks))
           /\ result' = [kind |-> "returned", success |-> TRUE]
           /\ pc' = "singleDone"
  /\ UNCHANGED <<auxVars, chunkVars, urls, idx, allChunks, processedUrls, episodes,
                 summarizeCalls, log, fetches, batches, workflowRuns>>

Next ==
  \/ ProcessUrl
  \/ ReturnChunks
  \/ NoChunksToEmbed
  \/ EmbedMany
  \/ CreateIndex
  \/ Upsert
  \/ NextBatch
  \/ SingleTranscriptChunks
  \/ EmbedSingleTranscriptChunks

Spec == BatchInit /\ [][Next]_vars

\* ------------------ embed steps of several batch runs at the same time
\* Each worker is one execution of embedMultipleTranscriptChunks on the chunks
\* its own processMultipleTranscriptsStep gathered; all of them use the one
\* 'transcripts' index.  A store call is one step: the store serializes the
\* calls it is given.
MaxWorkers == 2

\* the chunk lists a document gives
GatheredFrom(doc) ==
  LET txt == FullTranscriptText(doc.transcript.entries)
  IN {EnrichStep(doc, txt, ws).chunks : ws \in Chunk(txt)}

Gathered == {<<>>} \cup GatheredFrom(DocA) \cup GatheredFrom(DocB)

Worker(chunks) ==
  [pc |-> "embedStep", allChunks |-> chunks,
   processedUrls |-> IF chunks = <<>> THEN <<>> ELSE <<"u1">>,
   batchEmbeddings |-> <<>>, result |-> NoResult, faults |-> {}, created |-> "none"]

ConcInit ==
  /\ variant = "workers" /\ inputData = DocNoTranscript /\ runs = <<>>
  /\ RunIdle /\ SourceIdle /\ ToolIdle
  /\ indexExists \in BOOLEAN /\ vectors = <<>>
  /\ workers \in [1..MaxWorkers -> {Worker(c) : c \in Gathered}]

\* if (inputData.allChunks.length === 0) return { success: true, totalChunks: 0, ... }
WorkerNoChunks(w) ==
  /\ workers[w].pc = "embedStep" /\ NothingToEmbed(workers[w].allChunks)
  /\ workers' = [workers EXCEPT ![w].pc = "done",
                                ![w].result = Success(0, workers[w].processedUrls)]
  /\ UNCHANGED <<indexExists, vectors>>

\* await embedMany({ values })
WorkerEmbedMany(w) ==
  /\ workers[w].pc = "embedStep" /\ ~NothingToEmbed(workers[w].allChunks)
  /\ LET values == EmbedValues(workers[w].allChunks)
     IN \/ workers' = [workers EXCEPT
                         ![w].pc = "createIndex",
                         ![w].batchEmbeddings =
                            [i \in 1..Len(values) |-> Embedding(values[i])]]
        \/ workers' = [workers EXCEPT
                         ![w].pc = "threw",
                         ![w].faults = workers[w].faults \cup {"embedMany"},
                         ![w].result = Failure("EmbeddingError")]
  /\ UNCHANGED <<indexExists, vectors>>

\* try { await vectorStore.createIndex(...) } catch (error) { /* continue */ }
WorkerCreateIndex(w) ==
  /\ workers[w].pc = "createIndex"
  /\ \/ /\ indexExists' = TRUE
        /\ workers' = [workers EXCEPT
                         ![w].pc = "upsert",
                         ![w].created = IF indexExists THEN "present" ELSE "created"]
     \/ /\ indexExists
        /\ workers' = [workers EXCEPT
                         ![w].pc = AfterCreateFailed,
                         ![w].created = "alreadyExists",
                         ![w].result = IF AfterCreateFailed = "threw"
                                       THEN Failure("StoreError") ELSE workers[w].result]
        /\ UNCHANGED indexExists
     \/ /\ workers' = [workers EXCEPT
                         ![w].pc = AfterCreateFailed,
                         ![w].created = "storeError",
                         ![w].faults = workers[w].faults \cup {"createIndex"},
                         ![w].result = IF AfterCreateFailed = "threw"
                                       THEN Failure("StoreError") ELSE workers[w].result]
        /\ UNCHANGED indexExists
  /\ UNCHANGED vectors

\* await vectorStore.upsert({ vectors, metadata }) and the return
WorkerUpsert(w) ==
  /\ workers[w].pc = "upsert"
  /\ \/ /\ indexExists
        /\ vectors' = UpsertInto(vectors,
                                 VectorRows(VectorIds(vectors, Len(workers[w].allChunks)),
                                            workers[w].batchEmbeddings,
                                            workers[w].allChunks))
        /\ workers' = [workers EXCEPT
                         ![w].pc = "done",
                         ![w].result = Success(Len(workers[w].allChunks),
                                               workers[w].processedUrls)]
     \/ /\ workers' = [workers EXCEPT
                         ![w].pc = "threw",
                         ![w].faults = workers[w].faults \cup {"upsert"},
                         ![w].result = Failure("StoreError")]
        /\ UNCHANGED vectors
  /\ UNCHANGED indexExists

ConcNext ==
  /\ \/ \E w \in 1..MaxWorkers : WorkerNoChunks(w)
     \/ \E w \in 1..MaxWorkers : WorkerEmbedMany(w)
     \/ \E w \in 1..MaxWorkers : WorkerCreateIndex(w)
     \/ \E w \in 1..MaxWorkers : WorkerUpsert(w)
  /\ UNCHANGED <<chunkVars, runVars, videoUrl, served, adapterResult, toolContext,
                 toolResult>>

ConcSpec == ConcInit /\ [][ConcNext]_vars

\* ------------------------------------------------ the transcript source
\* getVideoTranscript with fetchJsonTranscript and fetchYouTubeTranscript, and
\* the workflow steps fetchTranscriptStep and parseTranscriptStep.
NoUrl == ""

RelativeUrl == "t.json"

JsonUrl == "https://host/t.json"

YouTubeUrl == "https://youtube.com/watch?v=1"

VideoUrls == {NoUrl, RelativeUrl, JsonUrl, YouTubeUrl}

\* new URL(videoUrl) throws a TypeError on a string that is no absolute url
ValidUrl(url) == url \in {JsonUrl, YouTubeUrl}

\* videoUrl.includes('youtube.com') || videoUrl.includes('youtu.be')
IsYouTube(url) == url = YouTubeUrl

\* a JSON body that is no transcript, as an error reply carries
DocError ==
  [hasMetadata |-> FALSE, metadata |-> Metadata(Undefined),
   transcript |-> [kind |-> "missing", entries |-> <<>>]]

Bodies ==
  {[kind |-> "notJson", data |-> DocError], [kind |-> "json", data |-> DocError],
   [kind |-> "json", data |-> SimpleDoc("E1", PlainText)]}
    \cup {[kind |-> "json", data |-> d] : d \in BatchDocs}

\* the network is up or down; the server replies with a status and a body
Responses == [net : {"up", "down"}, status : {200, 404, 500}, body : Bodies]

SourceThrew(error) == [kind |-> "threw", error |-> error]

SourceReturned(value) == [kind |-> "returned", value |-> value]

SourceUndefined == [kind |-> "undefined"]

\* fetchJsonTranscript: fetch, response.text(), JSON.parse; the status is not
\* looked at
FetchJsonTranscript(url, reply) ==
  IF reply.net = "down" \/ ~ValidUrl(url) THEN SourceThrew("TypeError")
  ELSE IF reply.body.kind = "notJson" THEN SourceThrew("SyntaxError")
  ELSE SourceReturned(reply.body.data)

\* fetchYouTubeTranscript: getInfo and getTranscript of the player API; what
\* they throw is logged and thrown again
FetchYouTubeTranscript(url, reply) ==
  IF reply.net = "down" \/ reply.status # 200 THEN SourceThrew("Error")
  ELSE SourceReturned(SimpleDoc("E1", PlainText))

\* getVideoTranscript: the checks before the try throw; what the fetch
\* functions throw inside the try is logged, and the function ends without a
\* return value
GetVideoTranscript(url, reply) ==
  IF url = NoUrl THEN SourceThrew("Error")
  ELSE IF ~ValidUrl(url) THEN SourceThrew("TypeError")
  ELSE LET got == IF IsYouTube(url) THEN FetchYouTubeTranscript(url, reply)
                  ELSE FetchJsonTranscript(url, reply)
       IN IF got.kind = "threw" THEN SourceUndefined ELSE got

SourceInit ==
  /\ variant = "source" /\ inputData = DocNoTranscript /\ runs = <<>>
  /\ RunIdle /\ indexExists = FALSE /\ vectors = <<>>
  /\ workers = <<>> /\ ToolIdle
  /\ videoUrl \in VideoUrls
  /\ served \in Responses
  /\ adapterResult = NoResult

CallGetVideoTranscript ==
  /\ adapterResult = NoResult
  /\ adapterResult' = GetVideoTranscript(videoUrl, served)
  /\ UNCHANGED <<chunkVars, batchVars, workers, videoUrl, served, toolContext,
                 toolResult>>

\* fetchTranscriptStep: const response = await fetch(url); return { text }
FetchTranscriptStep ==
  /\ adapterResult = NoResult
  /\ adapterResult' = IF served.net = "down" \/ ~ValidUrl(videoUrl)
                      THEN SourceThrew("TypeError")
                      ELSE [kind |-> "text", text |-> served.body]
  /\ UNCHANGED <<chunkVars, batchVars, workers, videoUrl, served, toolContext,
                 toolResult>>

\* parseTranscriptStep: return JSON.parse(inputData.text).  The step declares
\* chunkInputSchema as its output; a run that validates it rejects a document
\* without the required fields, one that does not hands it on.
ParseTranscriptStep ==
  /\ adapterResult.kind = "text"
  /\ \E validates \in BOOLEAN :
       adapterResult' =
         IF adapterResult.text.kind = "notJson" THEN SourceThrew("SyntaxError")
         ELSE IF validates /\ ~WellFormed(adapterResult.text)
              THEN SourceThrew("ZodError")
              ELSE SourceReturned(adapterResult.text.data)
  /\ UNCHANGED <<chunkVars, batchVars, workers, videoUrl, served, toolContext,
                 toolResult>>

SourceNext == CallGetVideoTranscript \/ FetchTranscriptStep \/ ParseTranscriptStep

SourceSpec == SourceInit /\ [][SourceNext]_vars

\* ------------------------------------ the copies of the chunk logic
\* chunkTranscriptStep, the inline copy in processMultipleTranscriptsStep and
\* chunkSingleTranscript, run one after the other on the same transcript with
\* the same windows from the splitter
Copies == <<"step", "inline", "helper">>

CopiesInit ==
  /\ variant = "copies"
  /\ inputData \in ChunkInputs
  /\ runs = <<>>
  /\ AuxIdle
  /\ urls = <<>> /\ idx = 1 /\ pc = "idle"
  /\ allChunks = <<>> /\ processedUrls = <<>> /\ batchEmbeddings = <<>>
  /\ result = NoResult
  /\ indexExists = FALSE /\ vectors = <<>>
  /\ episodes = <<>> /\ summarizeCalls = <<>>
  /\ log = <<>> /\ faults = {} /\ capCalls = <<>> /\ workflowRuns = <<>>
  /\ fetches = 0 /\ batches = 0

\* the copy whose turn it is, and the windows it is given: those of the first run
Turn(copy) == variant = "copies" /\ Len(runs) < Len(Copies) /\ Copies[Len(runs) + 1] = copy

WindowsGiven(txt) == IF runs = <<>> THEN Chunk(txt) ELSE {runs[1].windows}

CopyStep ==
  /\ Turn("step")
  /\ LET txt == FullTranscriptText(inputData.transcript.entries)
     IN \E ws \in WindowsGiven(txt) :
          LET out == EnrichStep(inputData, txt, ws)
          IN runs' = Append(runs, [copy |-> "step", text |-> txt, windows |-> ws,
                                   threw |-> out.threw, chunks |-> out.chunks])
  /\ UNCHANGED <<variant, inputData, batchVars, auxVars>>

\* the try block of the batch loop after JSON.parse gave the transcript
CopyInline ==
  /\ Turn("inline")
  /\ LET txt == FullTranscriptText(inputData.transcript.entries)
     IN \E ws \in WindowsGiven(txt) :
          LET out == Iteration([kind |-> "json", data |-> inputData], txt, ws)
          IN runs' = Append(runs, [copy |-> "inline", text |-> txt, windows |-> ws,
                                   threw |-> out.threw, chunks |-> out.chunks])
  /\ UNCHANGED <<variant, inputData, batchVars, auxVars>>

CopyHelper ==
  /\ Turn("helper")
  /\ LET txt == FullTranscriptText(inputData.transcript.entries)
     IN \E ws \in WindowsGiven(txt) :
          LET out == EnrichHelper(inputData, txt, ws)
          IN runs' = Append(runs, [copy |-> "helper", text |-> txt, windows |-> ws,
                                   threw |-> out.threw, chunks |-> out.chunks])
  /\ UNCHANGED <<variant, inputData, batchVars, auxVars>>

CopiesNext == CopyStep \/ CopyInline \/ CopyHelper

CopiesSpec == CopiesInit /\ [][CopiesNext]_vars

\* ------------------------------------- the batch loop, await by await
\* for (const url of inputData.urls) of processMultipleTranscriptsStep with
\* one step per await: fetch(url), response.text(), doc.chunk(...).  capCalls
\* holds the fetch calls in the order they are made, log one entry per
\* iteration that is over.
loopFrame ==
  <<variant, runs, urls, batchEmbeddings, result, indexExists, vectors, episodes,
    summarizeCalls, faults, workflowRuns, fetches, batches, auxVars>>

\* a loop that would try the same url again
RetryUrl(i) == i

\* the for loop moves to the next url, after the try block or after the catch
NextUrl(i) == i + 1

LoopInit ==
  /\ variant = "loop" /\ inputData = DocNoTranscript /\ runs = <<>>
  /\ AuxIdle
  /\ urls \in SeqsUpTo(Urls, MaxUrls)
  /\ idx = 1 /\ pc = "next"
  /\ allChunks = <<>> /\ processedUrls = <<>> /\ batchEmbeddings = <<>>
  /\ result = NoResult
  /\ indexExists = FALSE /\ vectors = <<>>
  /\ episodes = <<>> /\ summarizeCalls = <<>>
  /\ log = <<>> /\ faults = {} /\ capCalls = <<>>
  /\ workflowRuns = <<"transcripts-workflow">>
  /\ fetches = 0 /\ batches = 1

\* catch (error) { console.error(...) }, then the next url
Caught ==
  /\ log' = Append(log, [url |-> urls[idx], threw |-> TRUE, chunks |-> 0])
  /\ idx' = NextUrl(idx)
  /\ pc' = "next"
  /\ UNCHANGED <<inputData, allChunks, processedUrls>>

\* const response = await fetch(url): the call is made
StartFetch ==
  /\ pc = "next" /\ idx <= Len(urls)
  /\ capCalls' = Append(capCalls, [op |-> "fetch", at |-> idx, url |-> urls[idx]])
  /\ pc' = "awaitFetch"
  /\ UNCHANGED <<inputData, idx, allChunks, processedUrls, log, loopFrame>>

\* fetch settles: it rejects, or it gives a response and response.text() is called
FetchSettles ==
  /\ pc = "awaitFetch"
  /\ \E rejected \in BOOLEAN :
       IF rejected THEN Caught
       ELSE /\ pc' = "awaitText"
            /\ UNCHANGED <<inputData, idx, allChunks, processedUrls, log>>
  /\ UNCHANGED <<capCalls, loopFrame>>

\* response.text() settles; JSON.parse, parsed.transcript.forEach and new
\* MDocument run, and doc.chunk is called
TextSettles ==
  /\ pc = "awaitText"
  /\ \E o \in FetchOutcomes :
       IF ~(o.kind = "json" /\ o.data.transcript.kind = "array" /\ o.data.hasMetadata)
       THEN Caught
       ELSE /\ inputData' = o.data
            /\ pc' = "awaitChunk"
            /\ UNCHANGED <<idx, allChunks, processedUrls, log>>
  /\ UNCHANGED <<capCalls, loopFrame>>

\* doc.chunk settles; chunks.map, allChunks.push and processedUrls.push run
ChunkSettles ==
  /\ pc = "awaitChunk"
  /\ LET txt == FullTranscriptText(inputData.transcript.entries)
     IN \E ws \in Chunk(txt) :
          LET out == EnrichStep(inputData, txt, ws)
          IN IF out.threw THEN Caught
             ELSE /\ allChunks' = allChunks \o out.chunks
                  /\ processedUrls' = Append(processedUrls, urls[idx])
                  /\ log' = Append(log, [url |-> urls[idx], threw |-> FALSE,
                                         chunks |-> Len(out.chunks)])
                  /\ idx' = NextUrl(idx)
                  /\ pc' = "next"
                  /\ UNCHANGED inputData
  /\ UNCHANGED <<capCalls, loopFrame>>

\* return { allChunks, processedUrls }
LoopReturns ==
  /\ pc = "next" /\ idx > Len(urls)
  /\ pc' = "returned"
  /\ UNCHANGED <<inputData, idx, allChunks, processedUrls, log, capCalls, loopFrame>>

LoopNext == StartFetch \/ FetchSettles \/ TextSettles \/ ChunkSettles \/ LoopReturns

LoopSpec == LoopInit /\ [][LoopNext]_vars

\* ------------------------------------------------------ the query tools
\* transcriptSearchTool, speakerSearchTool, timestampSearchTool and
\* episodeInfoTool over the 'transcripts' index.  A stored row carries the set
\* of metadata fields it has ('present'); a field it lacks reads as undefined
\* and its slot in 'metadata' holds a filler that nothing may read.
MaxStored == 2

topKGeneral == 15

topKSpeaker == 10

topKTimestamp == 20

topKEpisodes == 100

MetadataFields ==
  {"episode_title", "total_speakers", "source", "source_type", "timestamp_start",
   "timestamp_end", "speakers_in_chunk", "entries_count", "chunk_id", "text"}

Filler ==
  [episode_title |-> "?", total_speakers |-> <<"?">>, source |-> "?",
   source_type |-> "?", timestamp_start |-> "?", timestamp_end |-> "?",
   speakers_in_chunk |-> <<"?">>, entries_count |-> 0, chunk_id |-> <<"?">>,
   text |-> <<"?">>]

\* a row as the embed step writes it: all metadata fields present
Ingested(chunk) ==
  [id |-> 0, vector |-> Embedding(chunk.text), metadata |-> WithText(chunk),
   present |-> MetadataFields]

\* rows in the index: chunks of two episodes, a row without metadata, and a
\* row whose metadata holds the text only
\* an episode whose only utterance is said ten minutes in
DocLate == ArrayDoc("E1", <<Entry("10:00", "A", PlainText)>>)

QueryRows ==
  {Ingested((CHOOSE c \in GatheredFrom(DocA) : TRUE)[1]),
   Ingested((CHOOSE c \in GatheredFrom(DocLate) : TRUE)[1]),
   Ingested((CHOOSE c \in GatheredFrom(DocB) : TRUE)[1]),
   [id |-> 0, vector |-> Embedding(<<"x">>), metadata |-> Filler, present |-> {}],
   [id |-> 0, vector |-> Embedding(PlainText),
    metadata |-> [Filler EXCEPT !.text = PlainText], present |-> {"text"}]}

Numbered(rows) == [i \in 1..Len(rows) |-> [rows[i] EXCEPT !.id = i]]

\* the order of the timestamp strings as the store compares them
\* the characters of a timestamp string: a digit by its value, ':' as 10
\* (it follows '9' in the character set)
TimeChars(t) ==
  CASE t = "00:00" -> <<0, 0, 10, 0, 0>>
    [] t = "00:05" -> <<0, 0, 10, 0, 5>>
    [] t = "10:00" -> <<1, 0, 10, 0, 0>>
    [] t = "01:00:00" -> <<0, 1, 10, 0, 0, 10, 0, 0>>

RECURSIVE LexLeq(_, _)
LexLeq(a, b) ==
  IF a = <<>> THEN TRUE
  ELSE IF b = <<>> THEN FALSE
  ELSE IF Head(a) # Head(b) THEN Head(a) < Head(b)
  ELSE LexLeq(Tail(a), Tail(b))

\* the store compares the strings of a metadata field character by character
StrLeq(a, b) == LexLeq(TimeChars(a), TimeChars(b))

\* a filter is a set of conditions [field, op, value]; a row passes when it
\* has the field and the field meets the condition
Passes(row, cond) ==
  /\ cond.field \in row.present
  /\ CASE cond.op = "eq" -> row.metadata[cond.field] = cond.value
       [] cond.op = "has" ->
            \E i \in 1..Len(row.metadata[cond.field]) :
              row.metadata[cond.field][i] = cond.value
       [] cond.op = "gte" -> StrLeq(cond.value, row.metadata[cond.field])
       [] cond.op = "lte" -> StrLeq(row.metadata[cond.field], cond.value)

\* how near a stored vector is to the query vector
Similarity(queryVector, vector) == IF queryVector = vector THEN 2 ELSE 1

IsNear(hit) == hit.score = 2

IsFar(hit) == hit.score = 1

Take(xs, n) == SubSeq(xs, 1, IF n < Len(xs) THEN n ELSE Len(xs))

RECURSIVE Hits(_, _, _)
Hits(store, queryVector, filter) ==
  IF store = <<>> THEN <<>>
  ELSE LET row == Head(store)
           rest == Hits(Tail(store), queryVector, filter)
       IN IF \A cond \in filter : Passes(row, cond)
          THEN <<[id |-> row.id, score |-> Similarity(queryVector, row.vector),
                  metadata |-> row.metadata, present |-> row.present]>> \o rest
          ELSE rest

\* vectorStore.query({ indexName, queryVector, topK, filter }): the topK rows
\* nearest to the query vector among those that pass the filter
Query(store, queryVector, topK, filter) ==
  LET hits == Hits(store, queryVector, filter)
  IN Take(SelectSeq(hits, IsNear) \o SelectSeq(hits, IsFar), topK)

\* a read that ignores whether the field is there
RawField(hit, field, default) == hit.metadata[field]

\* result.metadata?.field || default
FieldOr(hit, field, default) ==
  IF field \in hit.present THEN hit.metadata[field] ELSE default

\* the record the three search tools build for a hit
Formatted(hit) ==
  [text |-> FieldOr(hit, "text", <<>>),
   timestamp_start |-> FieldOr(hit, "timestamp_start", ""),
   timestamp_end |-> FieldOr(hit, "timestamp_end", ""),
   speakers_in_chunk |-> FieldOr(hit, "speakers_in_chunk", <<>>),
   episode_title |-> FieldOr(hit, "episode_title", ""),
   score |-> hit.score]

FormattedAll(hits) == [i \in 1..Len(hits) |-> Formatted(hits[i])]

\* formattedResults.map((r) => r.text).join('\n\n')
RECURSIVE RelevantContext(_)
RelevantContext(records) ==
  IF records = <<>> THEN <<>>
  ELSE IF Len(records) = 1 THEN records[1].text
  ELSE records[1].text \o <<"\n\n">> \o RelevantContext(Tail(records))

QueryTexts == {PlainText, <<"x">>}

Speakers == {"A", "B"}

Times == {Undefined, "00:00", "00:05", "01:00:00"}

Titles == {Undefined, "E1", "E2"}

\* what a tool leaves alone
toolFrame ==
  <<chunkVars, urls, idx, pc, allChunks, processedUrls, batchEmbeddings, result,
    indexExists, vectors, episodes, summarizeCalls, log, workflowRuns, fetches,
    batches, workers, videoUrl, served, adapterResult>>

\* rows of the transcripts table
EpisodeRow(id, title, speakers) ==
  [id |-> id, episode_title |-> title, speakers |-> speakers, source |-> "src",
   summary |-> "summary"]

EpisodeTables ==
  {<<>>,
   <<EpisodeRow(1, "E1", <<"A", "B">>)>>,
   <<EpisodeRow(1, "E1", <<"A", "B">>), EpisodeRow(2, "E2", <<"A">>)>>}

\* the capability that is out of reach during a vector tool's call, if any
Downs == {"none", "doEmbed", "query"}

\* the calls a vector tool makes: doEmbed, then query unless doEmbed threw;
\* reply is what the store gives back when it answers
VectorCalls(values, topK, filter, reply, down) ==
  IF down = "doEmbed" THEN <<[op |-> "doEmbed", values |-> values]>>
  ELSE <<[op |-> "doEmbed", values |-> values],
         [op |-> "query", topK |-> topK, filter |-> filter,
          reply |-> IF down = "none" THEN reply ELSE <<>>]>>

\* no try in the vector tools: what a capability throws leaves execute
Propagated(down, value) == IF down = "none" THEN value ELSE Failure(down)

ToolInit ==
  /\ variant = "tools" /\ inputData = DocNoTranscript /\ runs = <<>>
  /\ urls = <<>> /\ idx = 1 /\ pc = "idle"
  /\ allChunks = <<>> /\ processedUrls = <<>> /\ batchEmbeddings = <<>>
  /\ result = NoResult
  /\ episodes \in EpisodeTables /\ summarizeCalls = <<>>
  /\ log = <<>> /\ faults = {} /\ capCalls = <<>> /\ workflowRuns = <<>>
  /\ fetches = 0 /\ batches = 0
  /\ workers = <<>> /\ SourceIdle
  /\ indexExists = TRUE
  /\ \E rows \in SeqsUpTo(QueryRows, MaxStored) : vectors = Numbered(rows)
  /\ toolContext = NoResult /\ toolResult = NoResult

\* transcriptSearchTool.execute
TranscriptSearch ==
  /\ toolResult = NoResult
  /\ \E query \in QueryTexts, down \in Downs :
       LET results == Query(vectors, Embedding(query), topKGeneral, {})
           formattedResults == FormattedAll(results)
       IN /\ toolContext' = [tool |-> "transcript-search", query |-> query]
          /\ capCalls' = VectorCalls(<<query>>, topKGeneral, {}, results, down)
          /\ faults' = {down} \ {"none"}
          /\ toolResult' = Propagated(down,
                              [query |-> query,
                               relevantContext |-> RelevantContext(formattedResults),
                               sources |-> formattedResults])
  /\ UNCHANGED toolFrame

\* speakerSearchTool.execute: the query text is context.query || context.speaker
SpeakerSearch ==
  /\ toolResult = NoResult
  /\ \E speaker \in Speakers, query \in QueryTexts \cup {<<>>}, down \in Downs :
       LET asked == IF query = <<>> THEN <<speaker>> ELSE query
           filter == {[field |-> "speakers_in_chunk", op |-> "has", value |-> speaker]}
           results == Query(vectors, Embedding(asked), topKSpeaker, filter)
       IN /\ toolContext' = [tool |-> "speaker-search", speaker |-> speaker,
                             query |-> query]
          /\ capCalls' = VectorCalls(<<asked>>, topKSpeaker, filter, results, down)
          /\ faults' = {down} \ {"none"}
          /\ toolResult' = Propagated(down,
                              [speaker |-> speaker, results |-> FormattedAll(results)])
  /\ UNCHANGED toolFrame

\* the filter timestampSearchTool builds: both bounds are put on timestamp_start
TimestampFilter(start_time, end_time, episode_title) ==
  (IF episode_title # Undefined
   THEN {[field |-> "episode_title", op |-> "eq", value |-> episode_title]} ELSE {})
    \cup (IF start_time # Undefined
          THEN {[field |-> "timestamp_start", op |-> "gte", value |-> start_time]}
          ELSE {})
    \cup (IF end_time # Undefined
          THEN {[field |-> "timestamp_start", op |-> "lte", value |-> end_time]}
          ELSE {})

OrWord(x, word) == IF x = Undefined THEN word ELSE x

\* timestampSearchTool.execute
TimestampSearch ==
  /\ toolResult = NoResult
  /\ \E start_time \in Times, end_time \in Times, episode_title \in Titles,
        down \in Downs :
       LET filter == TimestampFilter(start_time, end_time, episode_title)
           results == Query(vectors, Embedding(<<"transcript content">>), topKTimestamp,
                            filter)
       IN /\ toolContext' = [tool |-> "timestamp-search", start_time |-> start_time,
                             end_time |-> end_time, episode_title |-> episode_title]
          /\ capCalls' = VectorCalls(<<<<"transcript content">>>>, topKTimestamp, filter,
                                     results, down)
          /\ faults' = {down} \ {"none"}
          /\ toolResult' = Propagated(down,
                              [timeRange |-> [start |-> OrWord(start_time, "beginning"),
                                              end |-> OrWord(end_time, "end")],
                               episode |-> OrWord(episode_title, "all episodes"),
                               results |-> FormattedAll(results)])
  /\ UNCHANGED toolFrame

\* an entry whose count stays as it is
NotCounted(entry) == entry

\* episodes.get(episodeTitle).chunks_count++
Counted(entry) == [entry EXCEPT !.chunks_count = @ + 1]

\* results.forEach of episodeInfoTool: one entry per title, in the order the
\* titles first occur, counting the hits of each
RECURSIVE GroupEpisodes(_, _)
GroupEpisodes(hits, episodeMap) ==
  IF hits = <<>> THEN episodeMap
  ELSE LET hit == Head(hits)
           episodeTitle == IF "episode_title" \in hit.present
                              /\ hit.metadata.episode_title # ""
                           THEN hit.metadata.episode_title ELSE "Unknown"
           at == {i \in 1..Len(episodeMap) : episodeMap[i].title = episodeTitle}
           known == IF at = {}
                    THEN Append(episodeMap,
                                [title |-> episodeTitle,
                                 speakers |-> FieldOr(hit, "total_speakers", <<>>),
                                 source |-> FieldOr(hit, "source", ""),
                                 chunks_count |-> 0])
                    ELSE episodeMap
       IN GroupEpisodes(Tail(hits),
                        [i \in 1..Len(known) |->
                           IF known[i].title = episodeTitle
                           THEN Counted(known[i])
                           ELSE known[i]])

\* episodeInfoTool.execute
EpisodeInfo ==
  /\ toolResult = NoResult
  /\ \E episode_title \in Titles, down \in Downs :
       LET filter == IF episode_title # Undefined
                     THEN {[field |-> "episode_title", op |-> "eq",
                            value |-> episode_title]}
                     ELSE {}
           results == Query(vectors, Embedding(<<"episode information">>), topKEpisodes,
                            filter)
           grouped == GroupEpisodes(results, <<>>)
       IN /\ toolContext' = [tool |-> "episode-info", episode_title |-> episode_title]
          /\ capCalls' = VectorCalls(<<<<"episode information">>>>, topKEpisodes, filter,
                                     results, down)
          /\ faults' = {down} \ {"none"}
          /\ toolResult' = Propagated(down,
                              [episodes |-> grouped, total_episodes |-> Len(grouped)])
  /\ UNCHANGED toolFrame

\* ---------------------------------------- the relational episode tools
\* searchEpisodesByTitle, findEpisodesBySpeaker, searchEpisodesBySpeakerAndTitle
\* and getEpisodeStats over the transcripts table.  A query is a sequence of
\* tokens: a word, the blank " " or the punctuation mark "!".
limitDefault == 10

statsLimit == 10

TitleQueries == {<<>>, <<"E1">>, <<" ", "E2", "!">>, <<"E1", " ", "E2">>}

SpeakerNames == {"A", "b", "Z"}

Limits == {0, 1, limitDefault}

\* query.trim().replace(/[^\w\s]/g, '').split(/\s+/).join(' & '): the words
\* the full-text query asks for, all of them
SearchQuery(query) == {query[i] : i \in {j \in 1..Len(query) : query[j] \notin {" ", "!"}}}

\* search_vector @@ websearch_to_tsquery('english', searchQuery)
TextMatch(row, searchQuery) ==
  searchQuery # {} /\ searchQuery \subseteq {row.episode_title}

Upper(name) == CASE name = "a" -> "A" [] name = "b" -> "B" [] OTHER -> name

\* EXISTS (SELECT 1 FROM unnest(speakers) AS speaker WHERE speaker ILIKE %name%)
SpeakerMatch(row, speakerName) ==
  \E i \in 1..Len(row.speakers) : Upper(row.speakers[i]) = Upper(speakerName)

\* the rows of a select in an order the database may give them
Orders(S) ==
  {q \in SeqsUpTo(S, Cardinality(S)) :
     Len(q) = Cardinality(S) /\ \A i, j \in 1..Len(q) : i # j => q[i] # q[j]}

\* the rows of the table, as a set
RowsOf(rows) == {rows[i] : i \in 1..Len(rows)}

\* searchEpisodesByTitle.execute: the catch block answers with a zero count
SearchEpisodesByTitle ==
  /\ toolResult = NoResult
  /\ \E query \in TitleQueries, down \in {"none", "select"} :
       LET found == {row \in RowsOf(episodes) : TextMatch(row, SearchQuery(query))}
       IN \E rows \in Orders(found) :
            LET results == [i \in 1..Len(rows) |->
                              [id |-> rows[i].id,
                               episode_title |-> rows[i].episode_title,
                               speakers |-> rows[i].speakers,
                               source |-> rows[i].source, relevanceScore |-> 1]]
            IN /\ toolContext' = [tool |-> "search-transcript-by-title",
                                  query |-> query]
               /\ capCalls' = <<[op |-> "select"]>>
               /\ faults' = {down} \ {"none"}
               /\ toolResult' =
                    IF down = "none"
                    THEN [results |-> results, query |-> query,
                          count |-> Len(results), message |-> "Found"]
                    ELSE [results |-> <<>>, isNull |-> TRUE, query |-> query,
                          count |-> 0, message |-> "Unknown error executing query"]
  /\ UNCHANGED toolFrame

\* findEpisodesBySpeaker.execute; limit is not used
FindEpisodesBySpeaker ==
  /\ toolResult = NoResult
  /\ \E speakerName \in SpeakerNames, down \in {"none", "select"} :
       LET found == {row \in RowsOf(episodes) : SpeakerMatch(row, speakerName)}
       IN \E rows \in Orders(found) :
            LET results == [i \in 1..Len(rows) |->
                              [id |-> rows[i].id,
                               episodeTitle |-> rows[i].episode_title,
                               speakers |-> rows[i].speakers,
                               sourceUrl |-> rows[i].source]]
            IN /\ toolContext' = [tool |-> "find-episodes-by-speaker",
                                  speakerName |-> speakerName]
               /\ capCalls' = <<[op |-> "select"]>>
               /\ faults' = {down} \ {"none"}
               /\ toolResult' =
                    IF down = "none"
                    THEN [results |-> results, speakerName |-> speakerName,
                          count |-> Len(results), message |-> "appeared in"]
                    ELSE [results |-> <<>>, isNull |-> TRUE,
                          speakerName |-> speakerName, count |-> 0,
                          message |-> "Error fetching episodes by"]
  /\ UNCHANGED toolFrame

\* searchEpisodesBySpeakerAndTitle.execute: .limit(limit || 10)
SearchEpisodesBySpeakerAndTitle ==
  /\ toolResult = NoResult
  /\ \E speakerName \in SpeakerNames, titleQuery \in TitleQueries, limit \in Limits,
        down \in {"none", "select"} :
       LET found == {row \in RowsOf(episodes) :
                       /\ TextMatch(row, SearchQuery(titleQuery))
                       /\ SpeakerMatch(row, speakerName)}
       IN \E rows \in Orders(found) :
            LET results == [i \in 1..Len(rows) |->
                              [id |-> rows[i].id,
                               episodeTitle |-> rows[i].episode_title,
                               speakers |-> rows[i].speakers,
                               sourceUrl |-> rows[i].source, relevanceScore |-> 1]]
                limited == Take(results, IF limit = 0 THEN limitDefault ELSE limit)
            IN /\ toolContext' = [tool |-> "search-episodes-by-speaker-and-title",
                                  speakerName |-> speakerName,
                                  titleQuery |-> titleQuery, limit |-> limit]
               /\ capCalls' = <<[op |-> "select"]>>
               /\ faults' = {down} \ {"none"}
               /\ toolResult' =
                    IF down = "none"
                    THEN [results |-> limited, speakerName |-> speakerName,
                          titleQuery |-> titleQuery, count |-> Len(limited),
                          message |-> "Found"]
                    ELSE [results |-> <<>>, isNull |-> TRUE,
                          speakerName |-> speakerName, titleQuery |-> titleQuery,
                          count |-> 0, message |-> "Combined search failed"]
  /\ UNCHANGED toolFrame

\* COUNT(*) of a speaker over transcripts, unnest(speakers)
Appearances(rows, name) ==
  Cardinality({<<i, k>> \in (1..Len(rows)) \X (1..2) :
                 k <= Len(rows[i].speakers) /\ rows[i].speakers[k] = name})

SpeakersOfTable(rows) ==
  {rows[i].speakers[k] : <<i, k>> \in {<<i, k>> \in (1..Len(rows)) \X (1..2) :
                                         k <= Len(rows[i].speakers)}}

\* getEpisodeStats.execute: count(*), then the ten speakers seen most often
GetEpisodeStats ==
  /\ toolResult = NoResult
  /\ \E down \in {"none", "select", "execute"} :
       \E names \in {q \in Orders(SpeakersOfTable(episodes)) :
                       \A i, j \in 1..Len(q) :
                         i < j => Appearances(episodes, q[i])
                                    >= Appearances(episodes, q[j])} :
         LET topSpeakers == [i \in 1..Len(Take(names, statsLimit)) |->
                               [name |-> names[i],
                                appearances |-> Appearances(episodes, names[i])]]
         IN /\ toolContext' = [tool |-> "get-episode-stats"]
            /\ capCalls' = IF down = "select" THEN <<[op |-> "select"]>>
                           ELSE <<[op |-> "select"], [op |-> "execute"]>>
            /\ faults' = {down} \ {"none"}
            /\ toolResult' =
                 IF down = "none"
                 THEN [totalEpisodes |-> Len(episodes), topSpeakers |-> topSpeakers,
                       message |-> "Database contains"]
                 ELSE [totalEpisodes |-> 0, topSpeakers |-> <<>>, isNull |-> TRUE,
                       message |-> "Error querying episode statistics"]
  /\ UNCHANGED toolFrame

ToolNext ==
  \/ TranscriptSearch \/ SpeakerSearch \/ TimestampSearch \/ EpisodeInfo
  \/ SearchEpisodesByTitle \/ FindEpisodesBySpeaker
  \/ SearchEpisodesBySpeakerAndTitle \/ GetEpisodeStats

ToolSpec == ToolInit /\ [][ToolNext]_vars

\* ======================================================================
\* Properties of the chunk logic (ChunkSpec)
\* ======================================================================
Structured == inputData.transcript.kind = "array"

TheEntries == inputData.transcript.entries

Returned(r) == ~runs[r].threw

\* the indices of the markers found in window k of execution r
Spanned(r, k) ==
  LET found == EntryIndices(Slice(runs[r].text, runs[r].windows[k]))
  IN {found[i] : i \in 1..Len(found)}

NonEmptyTextIndices ==
  {i \in 0..(Len(TheEntries) - 1) : Trim(TheEntries[i + 1].text) # <<>>}

Min(S) == CHOOSE x \in S : \A y \in S : x <= y

\* C4 (P1, chunk coverage): whenever the chunk logic returns chunks for a
\* non-empty structured transcript, the union of the chunks' spanned indices
\* is exactly the set of indices of the utterances with non-empty trimmed text.
C4_ChunkCoverage ==
  \A r \in 1..Len(runs) :
    (Structured /\ TheEntries # <<>> /\ Returned(r)) =>
      UNION {Spanned(r, k) : k \in 1..Len(runs[r].windows)} = NonEmptyTextIndices

C6_TimestampsByPosition ==
  \A r \in 1..Len(runs) :
    (Structured /\ Returned(r)) =>
      \A k \in 1..Len(runs[r].chunks) :
        Spanned(r, k) # {} =>
          /\ runs[r].chunks[k].metadata.timestamp_start
               = TheEntries[Min(Spanned(r, k)) + 1].timestamp
          /\ runs[r].chunks[k].metadata.timestamp_end
               = TheEntries[Max(Spanned(r, k)) + 1].timestamp

\* a chunk spans two utterances whose clock values run against their positions
C6_Witness ==
  \E r \in 1..Len(runs) :
    /\ Structured /\ Returned(r)
    /\ \E k \in 1..Len(runs[r].chunks) :
         /\ Cardinality(Spanned(r, k)) >= 2
         /\ runs[r].chunks[k].metadata.timestamp_start = "00:05"
         /\ runs[r].chunks[k].metadata.timestamp_end = "00:00"

\* the non-empty speakers of the utterances at the given indices, by first
\* appearance in index order
RECURSIVE SpeakersFrom(_, _)
SpeakersFrom(S, seen) ==
  IF S = {} THEN <<>>
  ELSE LET i == Min(S)
           sp == TheEntries[i + 1].speaker
       IN IF sp \in {"", " ", Undefined} \/ sp \in seen
          THEN SpeakersFrom(S \ {i}, seen)
          ELSE <<sp>> \o SpeakersFrom(S \ {i}, seen \cup {sp})

\* C7 (P4, speaker set): speakers_in_chunk of every chunk lists the non-empty
\* speakers of the spanned utterances, in order of first appearance, without
\* duplicates and without an empty name.
C7_SpeakersInChunk ==
  \A r \in 1..Len(runs) :
    Returned(r) =>
      \A k \in 1..Len(runs[r].chunks) :
        runs[r].chunks[k].metadata.speakers_in_chunk = SpeakersFrom(Spanned(r, k), {})

C10_SpannedNonEmptyIncreasing ==
  \A r \in 1..Len(runs) :
    (Structured /\ Returned(r)) =>
      \A k \in 1..Len(runs[r].windows) :
        LET ui == UniqueIndices(Slice(runs[r].text, runs[r].windows[k]))
        IN /\ ui # <<>>
           /\ \A i \in 1..(Len(ui) - 1) : ui[i] < ui[i + 1]

\* the spanned indices of window k that address an utterance of the transcript
Addressed(r, k) == {i \in Spanned(r, k) : InRange(TheEntries, i)}

\* C11: enrichment of a structured transcript completes whatever indices the
\* markers found in a chunk hold, and an index that addresses no utterance
\* adds nothing to the chunk's entry count and speakers.
C11_OutOfRangeSkipped ==
  \A r \in 1..Len(runs) :
    Structured =>
      /\ Returned(r)
      /\ \A k \in 1..Len(runs[r].chunks) :
           /\ runs[r].chunks[k].metadata.entries_count = Cardinality(Addressed(r, k))
           /\ \A j \in 1..Len(runs[r].chunks[k].metadata.speakers_in_chunk) :
                runs[r].chunks[k].metadata.speakers_in_chunk[j]
                  \in {TheEntries[i + 1].speaker : i \in Addressed(r, k)}

\* ======================================================================
\* Properties of the batch workflow (Spec)
\* ======================================================================
Ended == pc \in {"done", "threw"}

\* the urls of the iterations whose fetch and parse gave a well-formed transcript
RECURSIVE FetchedAndParsed(_)
FetchedAndParsed(entries) ==
  IF entries = <<>> THEN <<>>
  ELSE IF Head(entries).wellFormed
       THEN <<Head(entries).url>> \o FetchedAndParsed(Tail(entries))
       ELSE FetchedAndParsed(Tail(entries))

\* the urls of the iterations that added their chunks
RECURSIVE Completed(_)
Completed(entries) ==
  IF entries = <<>> THEN <<>>
  ELSE IF ~Head(entries).threw
       THEN <<Head(entries).url>> \o Completed(Tail(entries))
       ELSE Completed(Tail(entries))

RECURSIVE ChunksAdded(_)
ChunksAdded(entries) ==
  IF entries = <<>> THEN 0 ELSE Head(entries).chunks + ChunksAdded(Tail(entries))

\* C1 (P7, partial batch success): the result of a batch lists as processedUrls
\* exactly the urls that were fetched and parsed successfully, in input order,
\* and totalChunks is the number of chunks of those transcripts.
C1_PartialBatchSuccess ==
  (pc = "done" /\ result.kind = "returned") =>
    /\ result.processedUrls = FetchedAndParsed(log)
    /\ result.totalChunks = ChunksAdded(log)

\* C2: a batch in which no embedding or vector-store call fails ends by
\* returning a result object, whatever urls failed, and every url of the input
\* has been processed by then; the loop is left only after the last url.
C2_BatchNeverThrowsOnUrlFailure ==
  /\ pc # "loop" => [i \in 1..Len(log) |-> log[i].url] = urls
  /\ (Ended /\ faults = {}) =>
       /\ result.kind = "returned"
       /\ result.success
       /\ result.processedUrls = Completed(log)

\* a url failed, a later one was processed, and the batch returned
C2_Witness ==
  /\ pc = "done" /\ faults = {} /\ result.kind = "returned"
  /\ \E i, j \in 1..Len(log) : i < j /\ log[i].threw /\ ~log[j].threw
  /\ Len(result.processedUrls) < Len(urls)

\* C3: when the embedding call or a vector-store call (createIndex, upsert) of
\* a batch failed, the batch ends by throwing, not by returning success.
C3_CapabilityFailureIsFatal ==
  (Ended /\ faults # {}) => result.kind = "threw"

BatchRun == pc \in {"loop", "embedStep", "createIndex", "upsert", "done", "threw"}

\* C12 (zero-chunk batch): a batch that gathered no chunk ends by returning
\* success with totalChunks 0 and the processed urls as they were, and it has
\* called neither the embedding model nor the vector store.
C12_ZeroChunkBatch ==
  (Ended /\ allChunks = <<>>) =>
    /\ pc = "done"
    /\ capCalls = <<>>
    /\ result = Success(0, processedUrls)

\* the batch had a failed url and a transcript without text, and returned
C12_Witness ==
  /\ pc = "done" /\ allChunks = <<>>
  /\ processedUrls # <<>>
  /\ Len(processedUrls) < Len(urls)

IsEmbedCall(c) == c.op = "embedMany"

EmbedCalls == SelectSeq(capCalls, IsEmbedCall)

RECURSIVE TextsOf(_)
TextsOf(chunks) ==
  IF chunks = <<>> THEN <<>> ELSE <<Head(chunks).text>> \o TextsOf(Tail(chunks))

\* C13 (one embedding call per batch): a batch run calls the embedding model
\* at most once, only after the loop has gone through every url, with the
\* texts of all gathered chunks in the order they were gathered; a batch
\* with chunks that has ended has called it exactly once.
C13_OneEmbeddingCallPerBatch ==
  BatchRun =>
    /\ Len(EmbedCalls) <= 1
    /\ EmbedCalls # <<>> =>
         /\ idx > Len(urls) /\ Len(log) = Len(urls)
         /\ EmbedCalls[1].values = TextsOf(allChunks)
    /\ (Ended /\ allChunks # <<>>) => Len(EmbedCalls) = 1

\* a batch of two transcripts with three chunks in all was embedded in one call
C13_Witness ==
  /\ pc = "done" /\ Len(processedUrls) = 2 /\ Len(allChunks) >= 3
  /\ Len(EmbedCalls) = 1 /\ Len(EmbedCalls[1].values) = Len(allChunks)

\* C14 (idempotent collection creation): when the index exists, the
\* createIndex stage of a batch leaves the index and its vectors as they are
\* and goes on to upsert; a batch throws only when embedMany or upsert failed.
C14_IdempotentCreate ==
  /\ [](pc = "threw" => faults \cap {"embedMany", "upsert"} # {})
  /\ [][(pc = "createIndex" /\ indexExists) =>
          (pc' = "upsert" /\ indexExists' /\ vectors' = vectors)]_vars

\* a later batch found the index there, was told so, and added its vectors
C14_Witness ==
  /\ pc = "done" /\ Len(workflowRuns) = 2 /\ allChunks # <<>>
  /\ \E c \in 1..Len(capCalls) :
       capCalls[c].op = "createIndex" /\ capCalls[c].outcome = "alreadyExists"
  /\ Len(vectors) > Len(allChunks)

\* C15 (incremental updates): no step of an ingestion workflow removes a
\* vector from the collection.
C15_ExistingVectorsKept ==
  [][\A i \in 1..Len(vectors) : \E j \in 1..Len(vectors') : vectors'[j] = vectors[i]]_vars

\* C16 (re-ingestion is additive): vector ids are pairwise distinct, and a
\* successful upsert of a batch keeps every stored vector and adds one vector
\* per chunk of the batch, carrying the chunk's chunk_id.
C16_ReingestionAdditive ==
  /\ [](\A i, j \in 1..Len(vectors) : i # j => vectors[i].id # vectors[j].id)
  /\ [][(pc = "upsert" /\ pc' = "done") =>
          /\ Len(vectors') = Len(vectors) + result'.totalChunks
          /\ SubSeq(vectors', 1, Len(vectors)) = vectors
          /\ \A i \in 1..Len(allChunks) :
               vectors'[Len(vectors) + i].metadata.chunk_id
                 = allChunks[i].metadata.chunk_id]_vars

\* the same batch ran twice: the collection holds every chunk twice, under
\* two ids
C16_Witness ==
  /\ workflowRuns = <<"transcripts-workflow", "transcripts-workflow">>
  /\ pc = "done" /\ allChunks # <<>>
  /\ Len(vectors) = 2 * result.totalChunks
  /\ \A i \in 1..Len(allChunks) :
       /\ vectors[i].metadata = vectors[Len(allChunks) + i].metadata
       /\ vectors[i].id # vectors[Len(allChunks) + i].id

\* C19 (malformed documents are dropped): a url whose document is not JSON or
\* lacks metadata.episode_title, metadata.source or the transcript is treated
\* as failed: it adds no chunk and is not listed in processedUrls.
C19_MalformedDropped ==
  \A i \in 1..Len(log) :
    ~log[i].wellFormed => (log[i].threw /\ log[i].chunks = 0)

\* ======================================================================
\* Properties of embed steps that run at the same time (ConcSpec)
\* ======================================================================
WorkersOver == \A w \in 1..Len(workers) : workers[w].pc \in {"done", "threw"}

NoWorkerFault == \A w \in 1..Len(workers) : workers[w].faults = {}

RECURSIVE ChunksOfWorkers(_)
ChunksOfWorkers(w) ==
  IF w = 0 THEN 0 ELSE Len(workers[w].allChunks) + ChunksOfWorkers(w - 1)

\* C17 (concurrent batch runs): in every interleaving of the embed steps, a
\* step throws only when embedMany or upsert failed (never because the index
\* was there already); a step that ended without a failed call returned
\* success and each of its chunks is in the collection; vector ids are
\* pairwise distinct; and when all steps ended without a failed call the
\* collection holds exactly the vectors of all of them.
C17_ConcurrentRunsSafe ==
  /\ \A w \in 1..Len(workers) :
       /\ workers[w].pc = "threw" => workers[w].faults \cap {"embedMany", "upsert"} # {}
       /\ (workers[w].pc = "done" /\ workers[w].faults = {}) =>
            /\ workers[w].result
                 = Success(Len(workers[w].allChunks), workers[w].processedUrls)
            /\ \A i \in 1..Len(workers[w].allChunks) :
                 \E j \in 1..Len(vectors) :
                   /\ vectors[j].metadata = WithText(workers[w].allChunks[i])
                   /\ vectors[j].vector = Embedding(workers[w].allChunks[i].text)
  /\ \A i, j \in 1..Len(vectors) : i # j => vectors[i].id # vectors[j].id
  /\ (workers # <<>> /\ WorkersOver /\ NoWorkerFault) =>
       Len(vectors) = ChunksOfWorkers(Len(workers))

\* worker 1 created the index, worker 2 was told it exists, and worker 2 wrote
\* its vectors before worker 1 did
C17_Witness ==
  /\ workers # <<>> /\ WorkersOver /\ NoWorkerFault
  /\ workers[1].created = "created" /\ workers[2].created = "alreadyExists"
  /\ workers[1].allChunks # <<>> /\ workers[2].allChunks # <<>>
  /\ workers[1].allChunks # workers[2].allChunks
  /\ vectors[1].metadata = WithText(workers[2].allChunks[1])

\* ======================================================================
\* Properties of the transcript source (SourceSpec)
\* ======================================================================
\* the value is a transcript: metadata with episode_title and source, and the
\* utterances or the text
IsTranscript(doc) ==
  /\ doc.hasMetadata
  /\ doc.metadata.episode_title # Undefined
  /\ doc.metadata.source # Undefined
  /\ doc.transcript.kind \in {"array", "object"}

\* C18 (source adapter outcome): the transcript source ends in one of two
\* ways, a transcript or an error; and a reply with an HTTP error status ends
\* in an error.
C18_SourceAdapterOutcome ==
  adapterResult.kind \notin {"none", "text"} =>
    /\ \/ adapterResult.kind = "threw"
       \/ adapterResult.kind = "returned" /\ IsTranscript(adapterResult.value)
    /\ (served.net = "up" /\ served.status # 200) => adapterResult.kind = "threw"

\* ======================================================================
\* Properties of the query tools (ToolSpec)
\* ======================================================================
Thrown == "kind" \in DOMAIN toolResult /\ toolResult.kind = "threw"

Answered == toolResult # NoResult /\ ~Thrown

\* the result records of the tool that answered
VectorTools == {"transcript-search", "speaker-search", "timestamp-search", "episode-info"}

ResultRecords ==
  CASE toolContext.tool = "transcript-search" -> toolResult.sources
    [] toolContext.tool = "episode-info" -> toolResult.episodes
    [] toolContext.tool \in {"speaker-search", "timestamp-search"} -> toolResult.results
    [] OTHER -> <<>>

ResultFields ==
  {"text", "timestamp_start", "timestamp_end", "speakers_in_chunk", "episode_title",
   "score"}

FromRow(record, row) ==
  /\ record.text = (IF "text" \in row.present THEN row.metadata.text ELSE <<>>)
  /\ record.timestamp_start
       = (IF "timestamp_start" \in row.present THEN row.metadata.timestamp_start ELSE "")
  /\ record.timestamp_end
       = (IF "timestamp_end" \in row.present THEN row.metadata.timestamp_end ELSE "")
  /\ record.speakers_in_chunk
       = (IF "speakers_in_chunk" \in row.present
          THEN row.metadata.speakers_in_chunk ELSE <<>>)
  /\ record.episode_title
       = (IF "episode_title" \in row.present THEN row.metadata.episode_title ELSE "")
  /\ record.score \in {1, 2}

C21_QueryFailuresPropagate ==
  /\ (toolResult # NoResult /\ faults # {}) => Thrown
  /\ \A i, j \in 1..Len(capCalls) : i # j => capCalls[i].op # capCalls[j].op

\* what the store gave the tool that answered
Reply == capCalls[2].reply

\* the title a hit is grouped under: a missing or empty title goes under 'Unknown'
GroupTitle(hit) ==
  IF "episode_title" \in hit.present /\ hit.metadata.episode_title # ""
  THEN hit.metadata.episode_title ELSE "Unknown"

HitsUnder(title) == {i \in 1..Len(Reply) : GroupTitle(Reply[i]) = title}

\* C22: episode aggregation emits one record per distinct episode_title of
\* the store's reply (at most 100 hits), in order of first occurrence, each
\* with the roster and source of the first hit of that title and the number
\* of hits of that title; total_episodes is the number of records; an empty
\* reply gives no record and total_episodes = 0.
C22_EpisodesGrouped ==
  (Answered /\ toolContext.tool = "episode-info") =>
    LET records == toolResult.episodes
    IN /\ Len(Reply) <= 100
       /\ {records[k].title : k \in 1..Len(records)}
            = {GroupTitle(Reply[i]) : i \in 1..Len(Reply)}
       /\ \A j, k \in 1..Len(records) :
            j < k => Min(HitsUnder(records[j].title)) < Min(HitsUnder(records[k].title))
       /\ \A k \in 1..Len(records) :
            LET first == Reply[Min(HitsUnder(records[k].title))]
            IN /\ records[k].speakers
                    = (IF "total_speakers" \in first.present
                       THEN first.metadata.total_speakers ELSE <<>>)
               /\ records[k].source
                    = (IF "source" \in first.present THEN first.metadata.source ELSE "")
               /\ records[k].chunks_count = Cardinality(HitsUnder(records[k].title))
       /\ toolResult.total_episodes = Len(records)
       /\ Reply = <<>> => records = <<>> /\ toolResult.total_episodes = 0

\* two hits of one episode were folded into one record
C22_Witness ==
  /\ Answered /\ toolContext.tool = "episode-info"
  /\ Len(Reply) = 2
  /\ toolResult.total_episodes = 1
  /\ toolResult.episodes[1].title = "E1"
  /\ toolResult.episodes[1].chunks_count = 2

\* the clock time a timestamp string stands for, in seconds: MM:SS or HH:MM:SS
ClockSeconds(t) ==
  LET c == TimeChars(t)
  IN IF Len(c) = 5
     THEN (c[1] * 10 + c[2]) * 60 + c[4] * 10 + c[5]
     ELSE (c[1] * 10 + c[2]) * 3600 + (c[4] * 10 + c[5]) * 60 + c[7] * 10 + c[8]

\* C23: every chunk the time-range search returns (at most 20) starts at or
\* after start_time and at or before end_time as clock times, for each bound
\* that was given, and has the given episode_title; with no bound and no
\* title the query carries no filter.
C23_TimeRangeRespected ==
  (Answered /\ toolContext.tool = "timestamp-search") =>
    /\ Len(toolResult.results) <= 20
    /\ \A k \in 1..Len(toolResult.results) :
         LET chunk == toolResult.results[k]
         IN /\ toolContext.start_time # Undefined =>
                 /\ chunk.timestamp_start # ""
                 /\ ClockSeconds(toolContext.start_time)
                      <= ClockSeconds(chunk.timestamp_start)
            /\ toolContext.end_time # Undefined =>
                 /\ chunk.timestamp_start # ""
                 /\ ClockSeconds(chunk.timestamp_start)
                      <= ClockSeconds(toolContext.end_time)
            /\ toolContext.episode_title # Undefined =>
                 chunk.episode_title = toolContext.episode_title
    /\ (/\ toolContext.start_time = Undefined /\ toolContext.end_time = Undefined
        /\ toolContext.episode_title = Undefined) => capCalls[2].filter = {}

\* ======================================================================
\* Properties of the batch loop (LoopSpec)
\* ======================================================================
IsFetchCall(c) == c.op = "fetch"

FetchCalls == SelectSeq(capCalls, IsFetchCall)

InIteration == pc \in {"awaitFetch", "awaitText", "awaitChunk"}

\* C24: within one batch the k-th fetch is for the k-th url of the input and
\* there is no other fetch (each entry of the list is fetched once, in input
\* order, whether it fails or not); a fetch is made only when every earlier
\* url's iteration is over, so at most one url is being processed.
C24_SequentialNoRetry ==
  /\ \A k \in 1..Len(FetchCalls) :
       /\ k <= Len(urls)
       /\ FetchCalls[k].at = k
       /\ FetchCalls[k].url = urls[k]
  /\ \A k \in 1..Len(log) : k <= Len(urls) /\ log[k].url = urls[k]
  /\ Len(FetchCalls) = Len(log) + (IF InIteration THEN 1 ELSE 0)
  /\ pc = "returned" => Len(FetchCalls) = Len(urls)

\* a batch of two urls is over: the first url failed, the second did not,
\* and two fetches were made
C24_Witness ==
  /\ pc = "returned" /\ Len(urls) = 2
  /\ log[1].threw /\ ~log[2].threw
  /\ Len(FetchCalls) = 2

\* ======================================================================
\* Properties of the copies of the chunk logic (CopiesSpec)
\* ======================================================================
\* the fields of a chunk that the copies are to agree on
Compared(chunk) ==
  [text |-> chunk.text,
   timestamp_start |-> chunk.metadata.timestamp_start,
   timestamp_end |-> chunk.metadata.timestamp_end,
   speakers_in_chunk |-> chunk.metadata.speakers_in_chunk,
   entries_count |-> chunk.metadata.entries_count,
   chunk_id |-> chunk.metadata.chunk_id]

\* C25: on the same structured transcript and the same windows the three copies of the
\* chunk logic end alike, and when they return, their chunk lists agree on
\* text, timestamp_start, timestamp_end, speakers_in_chunk, entries_count
\* and chunk_id.
C25_CopiesAgree ==
  Structured =>
    \A r1, r2 \in 1..Len(runs) :
      /\ runs[r1].threw = runs[r2].threw
      /\ Len(runs[r1].chunks) = Len(runs[r2].chunks)
      /\ \A k \in 1..Len(runs[r1].chunks) :
           Compared(runs[r1].chunks[k]) = Compared(runs[r2].chunks[k])

\* ======================================================================
\* Further properties of the chunk logic (ChunkSpec)
\* ======================================================================
\* C26: entries_count of every emitted chunk is the number of distinct
\* utterances of the transcript that the chunk spans: the number of distinct
\* indices among its markers that address an utterance, a repeated marker
\* counted once.
C26_EntriesCount ==
  \A r \in 1..Len(runs) :
    Returned(r) =>
      \A k \in 1..Len(runs[r].chunks) :
        runs[r].chunks[k].metadata.entries_count
          = Cardinality(Spanned(r, k) \cap (0..(Len(TheEntries) - 1)))

\* a chunk was emitted whose text held the marker of one utterance twice
C26_Witness ==
  \E r \in 1..Len(runs) :
    /\ Returned(r)
    /\ \E k \in 1..Len(runs[r].chunks) :
         /\ Len(EntryIndices(Slice(runs[r].text, runs[r].windows[k]))) = 2
         /\ Spanned(r, k) = {0}
         /\ runs[r].chunks[k].metadata.entries_count = 1

\* C27: a chunk whose text holds no marker is emitted with no speakers, empty
\* timestamps, entries_count 0 and a chunk_id whose timestamp parts are
\* empty; a 'simple' transcript is chunked without failure and every chunk
\* of it is emitted that way.
C27_NoMarkerChunk ==
  \A r \in 1..Len(runs) :
    /\ ~Structured => Returned(r)
    /\ Returned(r) =>
         \A k \in 1..Len(runs[r].chunks) :
           (Spanned(r, k) = {} \/ ~Structured) =>
             LET m == runs[r].chunks[k].metadata
             IN /\ m.speakers_in_chunk = <<>>
                /\ m.timestamp_start = "" /\ m.timestamp_end = ""
                /\ m.entries_count = 0
                /\ m.chunk_id = <<m.episode_title, "_chunk_", k - 1, "_", "", "_", "">>

\* does the text hold the line at some position?
HoldsLine(txt, line) ==
  \E p \in 1..Len(txt) :
    p + Len(line) - 1 <= Len(txt) /\ SubSeq(txt, p, p + Len(line) - 1) = line

\* C28: of a structured transcript the utterances with empty trimmed text
\* are left out of the text that is chunked and every other utterance is in
\* it under the marker of its index in the original array; the markers found
\* in the text are those of the kept utterances, each once, so a marker
\* identifies one utterance; no chunk spans the index of an utterance with
\* empty trimmed text.
C28_MarkersKeepPositions ==
  \A r \in 1..Len(runs) :
    Structured =>
      /\ \A i \in NonEmptyTextIndices :
           HoldsLine(runs[r].text, LineId(i) \o <<" ">> \o Trim(TheEntries[i + 1].text))
      /\ Len(EntryIndices(runs[r].text)) = Cardinality(NonEmptyTextIndices)
      /\ \A j \in 1..Len(EntryIndices(runs[r].text)) :
           EntryIndices(runs[r].text)[j] \in NonEmptyTextIndices
      /\ \A k \in 1..Len(runs[r].windows) :
           Spanned(r, k) \subseteq NonEmptyTextIndices

\* ======================================================================
\* Further properties of the workflows (Spec)
\* ======================================================================
IsStoreCall(c) == c.op \in {"deleteIndex", "createIndex", "upsert"}

\* C29: when the embedding call of an embed step (batch or single transcript)
\* fails, the step has made no call to the vector store, and the index and
\* its vectors are what they were before.
C29_EmbedFailureLeavesStore ==
  /\ []("embedMany" \in faults => SelectSeq(capCalls, IsStoreCall) = <<>>)
  /\ [][("embedMany" \in faults') =>
          (vectors' = vectors /\ indexExists' = indexExists)]_vars

\* the single-transcript embed step failed at the embedding while the index
\* held vectors of an earlier run, and they are still there
C29_Witness ==
  /\ pc = "singleThrew" /\ faults = {"embedMany"}
  /\ indexExists /\ vectors # <<>>
  /\ Len(capCalls) = 1

\* the rows the batch that is over has written: the last ones of the index
Written(i) == vectors[Len(vectors) - Len(allChunks) + i]

\* C30: after a successful batch embed step the index holds one more row per
\* accumulated chunk, totalChunks is that number, and the i-th row written
\* holds the embedding of the i-th chunk's text together with that chunk's
\* metadata and text, which is what a query gives back for the vector.
C30_VectorsAligned ==
  (pc = "done" /\ allChunks # <<>>) =>
    /\ result.totalChunks = Len(allChunks)
    /\ Len(batchEmbeddings) = Len(allChunks)
    /\ capCalls[Len(capCalls)].op = "upsert"
    /\ capCalls[Len(capCalls)].count = Len(allChunks)
    /\ Len(vectors) >= Len(allChunks)
    /\ \A i \in 1..Len(allChunks) :
         /\ Written(i).vector = Embedding(allChunks[i].text)
         /\ Written(i).metadata.text = allChunks[i].text
         /\ DOMAIN Written(i).metadata = DOMAIN allChunks[i].metadata \cup {"text"}
         /\ \A f \in DOMAIN allChunks[i].metadata :
              Written(i).metadata[f] = allChunks[i].metadata[f]

\* a batch wrote the chunks of two episodes, with different texts
C30_Witness ==
  /\ pc = "done" /\ Len(allChunks) >= 2
  /\ allChunks[1].text # allChunks[Len(allChunks)].text
  /\ allChunks[1].metadata.episode_title # allChunks[Len(allChunks)].metadata.episode_title
  /\ result.totalChunks = Len(allChunks)

====
